---- MODULE Spec2Model ----
(***************************************************************************)
(* A model of the two-stage legal-document pipeline:                       *)
(*   casebase.py      stage 1: PDF -> cleaned text, run by a thread pool   *)
(*   Overview_new.py  stage 2: cleaned text -> extracted fields -> table   *)
(*                                                                         *)
(* Text is a sequence of characters; a character is a one-element string   *)
(* (or a name such as "U+2022" for a character outside ASCII).  Python's   *)
(* re module is modelled by a backtracking matcher over a pattern given as *)
(* data, so that every pattern of the source is transcribed element by     *)
(* element.                                                                *)
(***************************************************************************)
EXTENDS Integers, Sequences, FiniteSets, TLC

(***************************************************************************)
(* Characters and character classes                                        *)
(***************************************************************************)
Lower == {"a","b","c","d","e","f","g","h","i","j","k","l","m",
          "n","o","p","q","r","s","t","u","v","w","x","y","z"}
Upper == {"A","B","C","D","E","F","G","H","I","J","K","L","M",
          "N","O","P","Q","R","S","T","U","V","W","X","Y","Z"}
Digit == {"0","1","2","3","4","5","6","7","8","9"}
\* \s : the whitespace characters of the model's alphabet
WS == {" ", "\t", "\n", "\r"}
\* a bullet, U+2022 (in \u2000-\u206F), and a Latin-1 letter, U+00E9 (in \u00C0-\u00FF)
BulletCh == "U+2022"
EAcuteCh == "U+00E9"
\* capital I with dot above, U+0130, and the combining dot above, U+0307;
\* str.lower() turns the first into "i" followed by the second
DotICh == "U+0130"
CombDotCh == "U+0307"
\* \w : letters, digits, underscore (Unicode letters included)
WordCh == Lower \cup Upper \cup Digit \cup {"_", EAcuteCh, DotICh}
\* the characters of the model outside \x00-\x7F
NonAscii == {BulletCh, EAcuteCh, DotICh, CombDotCh}

ToLower == [A |-> "a", B |-> "b", C |-> "c", D |-> "d", E |-> "e", F |-> "f",
            G |-> "g", H |-> "h", I |-> "i", J |-> "j", K |-> "k", L |-> "l",
            M |-> "m", N |-> "n", O |-> "o", P |-> "p", Q |-> "q", R |-> "r",
            S |-> "s", T |-> "t", U |-> "u", V |-> "v", W |-> "w", X |-> "x",
            Y |-> "y", Z |-> "z"]
ToUpper == [a |-> "A", b |-> "B", c |-> "C", d |-> "D", e |-> "E", f |-> "F",
            g |-> "G", h |-> "H", i |-> "I", j |-> "J", k |-> "K", l |-> "L",
            m |-> "M", n |-> "N", o |-> "O", p |-> "P", q |-> "Q", r |-> "R",
            s |-> "S", t |-> "T", u |-> "U", v |-> "V", w |-> "W", x |-> "X",
            y |-> "Y", z |-> "Z"]
LowerOf(c) == IF c \in Upper THEN ToLower[c] ELSE c
\* the other case of a cased character (re.IGNORECASE compares both)
SwapCase(c) == IF c \in Upper THEN ToLower[c]
               ELSE IF c \in Lower THEN ToUpper[c] ELSE c

MinOf(S) == CHOOSE x \in S : \A y \in S : x <= y
MaxOf(S) == 0 - MinOf({0 - x : x \in S})

(***************************************************************************)
(* Pattern elements.  A pattern is a sequence of elements:                 *)
(*   Lit(w)            the characters of w, in order                       *)
(*   Rep(c,lo,hi)      lo..hi characters of the set c, greedy  (hi = -1:   *)
(*                     no upper limit);  NRep: characters NOT in c;        *)
(*                     LazyRep / LazyNRep: the lazy forms                  *)
(*   Alt(bs)           (?:b1|b2|...) : the branches, in order              *)
(*   Ahead(bs)         (?=b1|b2|...)                                       *)
(*   Bol, Eol, Wb      ^  $  \b                                            *)
(*   GrpS, GrpE        the opening and closing bracket of group 1          *)
(***************************************************************************)
Lit(w) == [t |-> "lit", w |-> w]
Rep(c, lo, hi) == [t |-> "cls", c |-> c, neg |-> FALSE, lo |-> lo, hi |-> hi, lazy |-> FALSE]
NRep(c, lo, hi) == [t |-> "cls", c |-> c, neg |-> TRUE, lo |-> lo, hi |-> hi, lazy |-> FALSE]
LazyRep(c, lo, hi) == [t |-> "cls", c |-> c, neg |-> FALSE, lo |-> lo, hi |-> hi, lazy |-> TRUE]
LazyNRep(c, lo, hi) == [t |-> "cls", c |-> c, neg |-> TRUE, lo |-> lo, hi |-> hi, lazy |-> TRUE]
One(c) == Rep(c, 1, 1)
Opt(c) == Rep(c, 0, 1)
Star(c) == Rep(c, 0, -1)
Plus(c) == Rep(c, 1, -1)
Alt(bs) == [t |-> "alt", b |-> bs]
OptGrp(b) == Alt(<<b, <<>>>>)
Ahead(bs) == [t |-> "la", b |-> bs]
Bol == [t |-> "bol"]
Eol == [t |-> "eol"]
Wb == [t |-> "wb"]
GrpS == [t |-> "gs"]
GrpE == [t |-> "ge"]

\* does character ch match the class element h (under re.IGNORECASE when ic)?
ClsMatch(h, ic, ch) ==
    LET pos == ch \in h.c \/ (ic /\ SwapCase(ch) \in h.c)
    IN  IF h.neg THEN ~pos ELSE pos

\* is the literal w at position i of s?
LitAt(w, ic, s, i) ==
    /\ i + Len(w) - 1 <= Len(s)
    /\ \A k \in 1..Len(w) :
          IF ic THEN LowerOf(s[i + k - 1]) = LowerOf(w[k]) ELSE s[i + k - 1] = w[k]

\* is position i of s the start or the end of a word?
IsWordAt(s, i) == i >= 1 /\ i <= Len(s) /\ s[i] \in WordCh
\* \b between s[i-1] and s[i]
WordBoundary(s, i) == IsWordAt(s, i - 1) # IsWordAt(s, i)
\* $ without re.MULTILINE: the end, or just before a newline that ends the text
AtEol(s, i) == i = Len(s) + 1 \/ (i = Len(s) /\ s[i] = "\n")
\* does the element h, which takes no character, hold at position i?
Holds(h, s, i) ==
    CASE h.t = "bol" -> i = 1
      [] h.t = "eol" -> AtEol(s, i)
      [] h.t = "wb" -> WordBoundary(s, i)

NoMatch == [ok |-> FALSE, b |-> 0, e |-> 0, gs |-> 0, ge |-> 0]

(***************************************************************************)
(* The matcher.  A backtracking matcher takes, at every element of the     *)
(* pattern, the first alternative in its order of preference (a greedy     *)
(* repetition its longest run, a lazy one its shortest, a group its first  *)
(* branch) for which the rest of the pattern matches.  Whether the rest    *)
(* matches is tabulated from the end of the pattern backwards: a table     *)
(* holds, for every position of the text and the position after its end,   *)
(* whether the pattern from some element on matches there.                 *)
(***************************************************************************)

\* the table that holds everywhere
Everywhere(s) == [i \in 1..(Len(s) + 1) |-> TRUE]
\* the positions at which table T holds, in ascending order
Where(T) == SelectSeq([i \in 1..Len(T) |-> i], LAMBDA i : T[i])
\* few enough to go through one by one
IsShort(ps) == Len(ps) <= 64

\* for every character of s, whether it matches the class element h
ClsTable(h, ic, s) == SubSeq([j \in 1..Len(s) |-> ClsMatch(h, ic, s[j])], 1, Len(s))
\* the first of the ascending positions ps that is not before i; n if there is none
FirstFrom(ps, i, n) ==
    IF \A q \in 1..Len(ps) : ps[q] < i THEN n
    ELSE ps[CHOOSE q \in 1..Len(ps) : ps[q] >= i /\ \A r \in 1..(q - 1) : ps[r] < i]
\* the first position from i on whose character does not match (M is the ClsTable)
ScanFrom(M, i) ==
    CHOOSE j \in i..(Len(M) + 1) :
        /\ j = Len(M) + 1 \/ ~M[j]
        /\ \A k \in i..(j - 1) : M[k]
Capped(h, r) == IF h.hi >= 0 /\ r > h.hi THEN h.hi ELSE r
\* for every position, the number of consecutive characters from it that match h,
\* at most h.hi; stops are the positions of the characters that do not match
RunsUpTo(h, M, stops) ==
    SubSeq([i \in 1..(Len(M) + 1) |->
               Capped(h, (IF IsShort(stops) THEN FirstFrom(stops, i, Len(M) + 1)
                                            ELSE ScanFrom(M, i)) - i)],
           1, Len(M) + 1)
StopsOf(M) == SelectSeq([j \in 1..Len(M) |-> j], LAMBDA j : ~M[j])
RunTable(h, M) == RunsUpTo(h, M, StopsOf(M))

\* the tables of one element h; T is the table of the pattern after h.
\*   can: the table of the pattern from h on
\*   run: for a repetition, the longest run at every position
\*   sub: for a group, the tables of its branches
LitEntry(h, ic, s, T) ==
    [can |-> SubSeq([i \in 1..Len(T) |-> LitAt(h.w, ic, s, i) /\ T[i + Len(h.w)]], 1, Len(T)),
     run |-> <<>>, sub |-> <<>>]
ClsCan(h, T, R, ts) ==
    SubSeq([i \in 1..Len(T) |->
               /\ R[i] >= h.lo
               /\ IF IsShort(ts)
                  THEN \E q \in 1..Len(ts) : ts[q] >= i + h.lo /\ ts[q] <= i + R[i]
                  ELSE \E c \in h.lo..R[i] : T[i + c]],
           1, Len(T))
ClsEntry(h, T, R) == [can |-> ClsCan(h, T, R, Where(T)), run |-> R, sub |-> <<>>]
HoldsEntry(h, s, T) ==
    [can |-> SubSeq([i \in 1..Len(T) |-> T[i] /\ Holds(h, s, i)], 1, Len(T)),
     run |-> <<>>, sub |-> <<>>]
\* the table of a sequence of elements with the tables tabs, followed by K
First(tabs, K) == IF Len(tabs) = 0 THEN K ELSE tabs[1].can
AltEntry(T, subs) ==
    [can |-> SubSeq([i \in 1..Len(T) |-> \E j \in 1..Len(subs) : First(subs[j], T)[i]],
                    1, Len(T)),
     run |-> <<>>, sub |-> subs]
AheadEntry(T, E, subs) ==
    [can |-> SubSeq([i \in 1..Len(T) |->
                        T[i] /\ \E j \in 1..Len(subs) : First(subs[j], E)[i]],
                    1, Len(T)),
     run |-> <<>>, sub |-> subs]

RECURSIVE Tabs(_, _, _, _)
Entry(h, ic, s, T) ==
    CASE h.t = "lit" -> LitEntry(h, ic, s, T)
      [] h.t = "cls" -> ClsEntry(h, T, RunTable(h, ClsTable(h, ic, s)))
      [] h.t = "alt" ->
           AltEntry(T, SubSeq([j \in 1..Len(h.b) |-> Tabs(h.b[j], ic, s, T)], 1, Len(h.b)))
      [] h.t = "la" ->
           AheadEntry(T, Everywhere(s),
                      SubSeq([j \in 1..Len(h.b) |-> Tabs(h.b[j], ic, s, Everywhere(s))],
                             1, Len(h.b)))
      [] h.t \in {"bol", "eol", "wb"} -> HoldsEntry(h, s, T)
      [] h.t \in {"gs", "ge"} -> [can |-> T, run |-> <<>>, sub |-> <<>>]

\* the tables of the elements of re, from the last to the first; acc holds the
\* tables of the elements done, K is the table of what follows re
RECURSIVE Back(_, _, _, _, _)
Back(re, ic, s, K, acc) ==
    IF Len(acc) = Len(re) THEN acc
    ELSE Back(re, ic, s, K,
              <<Entry(re[Len(re) - Len(acc)], ic, s, First(acc, K))>> \o acc)
Tabs(re, ic, s, K) == Back(re, ic, s, K, <<>>)

\* the run a repetition takes at position i, where r is its longest run there and
\* T the table of the pattern after it
Taken(h, T, i, r) ==
    IF h.lazy
    THEN CHOOSE c \in h.lo..r : T[i + c] /\ \A d \in h.lo..(c - 1) : ~T[i + d]
    ELSE CHOOSE c \in h.lo..r : T[i + c] /\ \A d \in (c + 1)..r : ~T[i + d]
\* the branch a group takes at position i
Branch(subs, T, i) ==
    CHOOSE j \in 1..Len(subs) :
        First(subs[j], T)[i] /\ \A r \in 1..(j - 1) : ~First(subs[r], T)[i]

\* the matcher's way through the elements of re from st on: st.k is the next
\* element, st.i the position, st.gs and st.ge group 1 as recorded so far
RECURSIVE Walk(_, _, _, _)
Onward(st, w) == [k |-> st.k + 1, i |-> w.i, gs |-> w.gs, ge |-> w.ge]
InBranch(h, e, T, st, j) == Onward(st, Walk(h.b[j], e.sub[j], T, [st EXCEPT !.k = 1]))
Step(h, e, T, st) ==
    CASE h.t = "lit" -> [st EXCEPT !.k = st.k + 1, !.i = st.i + Len(h.w)]
      [] h.t = "cls" ->
           [st EXCEPT !.k = st.k + 1, !.i = st.i + Taken(h, T, st.i, e.run[st.i])]
      [] h.t = "alt" -> InBranch(h, e, T, st, Branch(e.sub, T, st.i))
      [] h.t = "gs" -> [st EXCEPT !.k = st.k + 1, !.gs = st.i]
      [] h.t = "ge" -> [st EXCEPT !.k = st.k + 1, !.ge = st.i]
      [] h.t \in {"la", "bol", "eol", "wb"} -> [st EXCEPT !.k = st.k + 1]
Walk(re, tabs, K, st) ==
    IF st.k > Len(re) THEN st
    ELSE Walk(re, tabs, K,
              Step(re[st.k], tabs[st.k],
                   IF st.k = Len(re) THEN K ELSE tabs[st.k + 1].can, st))

\* the match that starts at position p, if there is one: b..e-1 is the match,
\* gs..ge-1 is group 1
Matched(p, w) == [ok |-> TRUE, b |-> p, e |-> w.i, gs |-> w.gs, ge |-> w.ge]
Found(re, tabs, E, p) ==
    IF First(tabs, E)[p]
    THEN Matched(p, Walk(re, tabs, E, [k |-> 1, i |-> p, gs |-> 0, ge |-> 0]))
    ELSE NoMatch
\* the match of pattern re that starts at position i
MatchFrom(re, ic, s, i) == Found(re, Tabs(re, ic, s, Everywhere(s)), Everywhere(s), i)

\* a condition every match of re from its element k on meets at its first
\* position i: the first element that has to take a character finds one there
RECURSIVE MayStart(_, _, _, _, _)
MayStart(re, k, ic, s, i) ==
    IF k > Len(re) THEN TRUE
    ELSE CASE re[k].t = "lit" -> LitAt(re[k].w, ic, s, i)
           [] re[k].t = "cls" ->
                \/ i <= Len(s) /\ ClsMatch(re[k], ic, s[i])
                \/ re[k].lo = 0 /\ MayStart(re, k + 1, ic, s, i)
           [] re[k].t = "alt" ->
                \E j \in 1..Len(re[k].b) :
                    IF Len(re[k].b[j]) = 0 THEN MayStart(re, k + 1, ic, s, i)
                    ELSE MayStart(re[k].b[j], 1, ic, s, i)
           [] re[k].t \in {"bol", "eol", "wb"} ->
                Holds(re[k], s, i) /\ MayStart(re, k + 1, ic, s, i)
           [] re[k].t \in {"la", "gs", "ge"} -> MayStart(re, k + 1, ic, s, i)
\* does any position of s meet it?  (where none does, the tables are not needed)
MayMatch(re, ic, s) == \E i \in 1..(Len(s) + 1) : MayStart(re, 1, ic, s, i)

\* re.search(re, s): the match at the leftmost position that has one
SearchAmong(re, tabs, E, ps) == IF Len(ps) = 0 THEN NoMatch ELSE Found(re, tabs, E, ps[1])
SearchIn(re, tabs, E) == SearchAmong(re, tabs, E, Where(First(tabs, E)))
Search(re, ic, s) ==
    IF MayMatch(re, ic, s) THEN SearchIn(re, Tabs(re, ic, s, Everywhere(s)), Everywhere(s))
    ELSE NoMatch

\* the replacement text: the element "\\1" stands for group 1 of the match
RECURSIVE Expand(_, _, _)
Expand(repl, s, m) ==
    IF Len(repl) = 0 THEN <<>>
    ELSE (IF repl[1] = "\\1" THEN SubSeq(s, m.gs, m.ge - 1) ELSE <<repl[1]>>)
         \o Expand(Tail(repl), s, m)

\* one step of re.sub's scan, at a position p where the pattern matches with m; st.p
\* is the first position not yet consumed, st.out the text produced so far.  (No
\* pattern of the program matches the empty string; an empty match is not replaced.)
Replace(repl, s, p, st, m) ==
    IF m.e > p
    THEN [p |-> m.e, out |-> st.out \o SubSeq(s, st.p, p - 1) \o Expand(repl, s, m)]
    ELSE st
SubStep(re, repl, s, tabs, E, p, st) ==
    IF p < st.p THEN st ELSE Replace(repl, s, p, st, Found(re, tabs, E, p))

\* the scan over the positions ps[lo..hi] at which the pattern matches, left to
\* right (split in halves)
RECURSIVE SubScan(_, _, _, _, _, _, _, _, _)
SubScan(re, repl, s, tabs, E, ps, lo, hi, st) ==
    IF st.p < 0 \/ lo > hi THEN st
    ELSE IF lo = hi THEN SubStep(re, repl, s, tabs, E, ps[lo], st)
    ELSE SubScan(re, repl, s, tabs, E, ps, ((lo + hi) \div 2) + 1, hi,
                 SubScan(re, repl, s, tabs, E, ps, lo, (lo + hi) \div 2, st))
Unmatched(s, st) == st.out \o SubSeq(s, st.p, Len(s))
SubAmong(re, repl, s, tabs, E, ps) ==
    Unmatched(s, SubScan(re, repl, s, tabs, E, ps, 1, Len(ps), [p |-> 1, out |-> <<>>]))
SubIn(re, repl, s, tabs, E) == SubAmong(re, repl, s, tabs, E, Where(First(tabs, E)))

\* re.sub(re, repl, s): every leftmost non-overlapping match replaced
Sub(re, ic, repl, s) ==
    IF Len(s) = 0 \/ ~MayMatch(re, ic, s) THEN s
    ELSE SubIn(re, repl, s, Tabs(re, ic, s, Everywhere(s)), Everywhere(s))

\* str.strip(): whitespace removed at both ends
Strip(s) ==
    LET n == Len(s)
        lead == CHOOSE j \in 0..n : /\ j = n \/ s[j + 1] \notin WS
                                    /\ \A k \in 1..j : s[k] \in WS
        trail == CHOOSE j \in 0..n : /\ j = n \/ s[n - j] \notin WS
                                     /\ \A k \in 0..(j - 1) : s[n - k] \in WS
    IN  IF lead = n THEN <<>> ELSE SubSeq(s, lead + 1, n - trail)

(***************************************************************************)
(* The patterns of DocumentParser (Overview_new.py), transcribed element   *)
(* by element.                                                             *)
(***************************************************************************)
SENTINEL == <<"T","i","d","a","k"," ","d","i","t","e","m","u","k","a","n">>
PN_YOGYAKARTA == <<"P","N"," ","Y","O","G","Y","A","K","A","R","T","A">>
\* (\d+[-/]?[A-Za-z0-9./]+/[^/\n]*?(?:PN\.?)?\.?YYK)
NomorGroup ==
    <<GrpS, Plus(Digit), Opt({"-", "/"}), Plus(Lower \cup Upper \cup Digit \cup {".", "/"}),
      Lit(<<"/">>), LazyNRep({"/", "\n"}, 0, -1), OptGrp(<<Lit(<<"P","N">>), Opt({"."})>>), Opt({"."}),
      Lit(<<"Y","Y","K">>), GrpE>>
\* self.patterns['nomor_putusan'], in the order of the list
NomorPatterns ==
    << <<Lit(<<"N","o","m","o","r">>), Star(WS), Opt({":"}), Star(WS)>> \o NomorGroup,
       <<Lit(<<"P","u","t","u","s","a","n">>), Plus(WS), Lit(<<"N","o">>), Opt({".", ":"}), Star(WS)>> \o NomorGroup,
       <<Lit(<<"N","o">>), Opt({".", ":"}), Star(WS)>> \o NomorGroup >>
\* (?=MENGINGAT|MENGADILI|MEMUTUSKAN|MENETAPKAN|MENYATAKAN|Membebankan|$)
BuktiStopLong == Ahead(<<<<Lit(<<"M","E","N","G","I","N","G","A","T">>)>>, <<Lit(<<"M","E","N","G","A","D","I","L","I">>)>>, <<Lit(<<"M","E","M","U","T","U","S","K","A","N">>)>>, <<Lit(<<"M","E","N","E","T","A","P","K","A","N">>)>>, <<Lit(<<"M","E","N","Y","A","T","A","K","A","N">>)>>, <<Lit(<<"M","e","m","b","e","b","a","n","k","a","n">>)>>>> \o <<<<Eol>>>>)
\* (?=MENGINGAT|MENGADILI|MEMUTUSKAN|MENETAPKAN|MENYATAKAN|$)
BuktiStopShort == Ahead(<<<<Lit(<<"M","E","N","G","I","N","G","A","T">>)>>, <<Lit(<<"M","E","N","G","A","D","I","L","I">>)>>, <<Lit(<<"M","E","M","U","T","U","S","K","A","N">>)>>, <<Lit(<<"M","E","N","E","T","A","P","K","A","N">>)>>, <<Lit(<<"M","E","N","Y","A","T","A","K","A","N">>)>>>> \o <<<<Eol>>>>)
\* (.*?) under re.DOTALL
LazyAnyGroup == <<GrpS, LazyNRep({}, 0, -1), GrpE>>
\* self.patterns['barang_bukti'], in the order of the list
BuktiPatterns ==
    << <<Lit(<<"B","a","r","a","n","g">>), Star(WS), Lit(<<"b","u","k","t","i">>), Star(WS), Lit(<<"b","e","r","u","p","a">>), Star(WS \cup {":"})>>
          \o LazyAnyGroup \o <<BuktiStopLong>>,
       <<Lit(<<"m","e","n","e","t","a","p","k","a","n">>), Plus(WS), Lit(<<"b","a","r","a","n","g">>), Plus(WS), Lit(<<"b","u","k","t","i">>), Plus(WS), Lit(<<"b","e","r","u","p","a">>), Star(WS \cup {":"})>>
          \o LazyAnyGroup \o <<BuktiStopLong>>,
       <<Lit(<<"t","e","r","b","u","k","t","i">>), Star(WS \cup {":"})>> \o LazyAnyGroup \o <<BuktiStopShort>>,
       <<Lit(<<"t","e","l","a","h">>), Plus(WS), Lit(<<"d","i","t","e","m","u","k","a","n">>), Star(WS)>> \o LazyAnyGroup \o <<BuktiStopShort>>,
       <<Lit(<<"d","i","t","e","m","u","k","a","n">>), Star(WS)>> \o LazyAnyGroup \o <<BuktiStopShort>> >>
\* (?=KEDUA|KETIGA|KEEMPAT|KELIMA|MENETAPKAN|MEMBEBANKAN|$)
AmarStop == Ahead(<<<<Lit(<<"K","E","D","U","A">>)>>, <<Lit(<<"K","E","T","I","G","A">>)>>, <<Lit(<<"K","E","E","M","P","A","T">>)>>, <<Lit(<<"K","E","L","I","M","A">>)>>, <<Lit(<<"M","E","N","E","T","A","P","K","A","N">>)>>, <<Lit(<<"M","E","M","B","E","B","A","N","K","A","N">>)>>>> \o <<<<Eol>>>>)
\* self.patterns['amar_putusan'], in the order of the list
AmarPatterns ==
    << <<Lit(<<"M","e","n","y","a","t","a","k","a","n">>), Plus(WS), One({"T", "t"}), Lit(<<"e","r","d","a","k","w","a">>), Star(WS)>> \o LazyAnyGroup \o <<AmarStop>>,
       <<Lit(<<"M","E","N","Y","A","T","A","K","A","N">>), Plus(WS), One({"T", "t"}), Lit(<<"e","r","d","a","k","w","a">>), Star(WS)>> \o LazyAnyGroup \o <<AmarStop>> >>
\* (Menyatakan\s+[Tt]erdakwa)
AmarAnchor == <<GrpS, Lit(<<"M","e","n","y","a","t","a","k","a","n">>), Plus(WS), One({"T", "t"}), Lit(<<"e","r","d","a","k","w","a">>), GrpE>>
\* \n\s{0,5}[A-Z]{3,}\b
NextMarker == <<Lit(<<"\n">>), Rep(WS, 0, 5), Rep(Upper, 3, -1), Wb>>
\* [\.:,;\-]*
TrailPunct == Star({".", ":", ",", ";", "-"})
\* \bhal\b\s*\d+\s*(?:dari|/)\s*\d+\s*(?:hal)?(?:\s*yyk)?\b[\.:,;\-]*
PageMarker ==
    <<Wb, Lit(<<"h","a","l">>), Wb, Star(WS), Plus(Digit), Star(WS), Alt(<<<<Lit(<<"d","a","r","i">>)>>, <<Lit(<<"/">>)>>>>), Star(WS), Plus(Digit),
      Star(WS), OptGrp(<<Lit(<<"h","a","l">>)>>), OptGrp(<<Star(WS), Lit(<<"y","y","k">>)>>), Wb, TrailPunct>>
\* \bputusan\s+nomor\s+[A-Za-z0-9\./-]+(?:\s*/?\s*pn\s*yyk)?\b[\.:,;\-]*
PutusanMarker ==
    <<Wb, Lit(<<"p","u","t","u","s","a","n">>), Plus(WS), Lit(<<"n","o","m","o","r">>), Plus(WS),
      Plus(Lower \cup Upper \cup Digit \cup {".", "/", "-"}),
      OptGrp(<<Star(WS), Opt({"/"}), Star(WS), Lit(<<"p","n">>), Star(WS), Lit(<<"y","y","k">>)>>), Wb, TrailPunct>>
\* \b(?:pn\s*)?yyk\b[\.:,;\-]*
YykMarker == <<Wb, OptGrp(<<Lit(<<"p","n">>), Star(WS)>>), Lit(<<"y","y","k">>), Wb, TrailPunct>>
\* case_\d{1,4}
CaseMarker == <<Lit(<<"c","a","s","e","_">>), Rep(Digit, 1, 4)>>
\* \s+
WsRun == <<Plus(WS)>>
\* \n\s*[-\u2022]\s*
BulletItem == <<Lit(<<"\n">>), Star(WS), One({"-", BulletCh}), Star(WS)>>
\* \n\s*\d+\s*[)\.]\s*
NumberedItem == <<Lit(<<"\n">>), Star(WS), Plus(Digit), Star(WS), One({")", "."}), Star(WS)>>
\* [\u2000-\u206F\u2E00-\u2E7F\u3000-\u303F\u25A0-\u25FF\u2600-\u26FF]+
UniSymbols == <<Plus({BulletCh})>>
\* (?:^|;\s*)[-a-z0-9]+[.)]?\s+
ListMarker ==
    <<Alt(<< <<Bol>>, <<Lit(<<";">>), Star(WS)>> >>), Plus(Lower \cup Digit \cup {"-"}),
      Opt({".", ")"}), Plus(WS)>>
\* (?:^|;\s*)[-\u2022]\s*
DashMarker == <<Alt(<< <<Bol>>, <<Lit(<<";">>), Star(WS)>> >>), One({"-", BulletCh}), Star(WS)>>
\* [^0-9A-Za-z\u00C0-\u00D6\u00D8-\u00F6\u00F8-\u00FF\s,.;:()%\-/]
NotAllowed ==
    <<NRep(Digit \cup Upper \cup Lower \cup {EAcuteCh} \cup WS
             \cup {",", ".", ";", ":", "(", ")", "%", "-", "/"}, 1, 1)>>
\* [:;]{2,}
ColonSemiRun == <<Rep({":", ";"}, 2, -1)>>
\* [:;]\s*[:;]+
ColonSemiSpaced == <<One({":", ";"}), Star(WS), Plus({":", ";"})>>
\* ;{2,}
SemiRun == <<Rep({";"}, 2, -1)>>
\* ,{2,}
CommaRun == <<Rep({","}, 2, -1)>>
\* num_words
NumWords == <<<<Lit(<<"s","a","t","u">>)>>, <<Lit(<<"d","u","a">>)>>, <<Lit(<<"t","i","g","a">>)>>, <<Lit(<<"e","m","p","a","t">>)>>, <<Lit(<<"l","i","m","a">>)>>, <<Lit(<<"e","n","a","m">>)>>, <<Lit(<<"t","u","j","u","h">>)>>, <<Lit(<<"d","e","l","a","p","a","n">>)>>, <<Lit(<<"s","e","m","b","i","l","a","n">>)>>, <<Lit(<<"s","e","p","u","l","u","h">>)>>, <<Lit(<<"s","e","b","e","l","a","s">>)>>, <<Lit(<<"d","u","a"," ","b","e","l","a","s">>)>>, <<Lit(<<"t","i","g","a"," ","b","e","l","a","s">>)>>, <<Lit(<<"e","m","p","a","t"," ","b","e","l","a","s">>)>>, <<Lit(<<"l","i","m","a"," ","b","e","l","a","s">>)>>>>
\* \b(\d+)\s+(?:num_words)\b
NumberWord == <<Wb, GrpS, Plus(Digit), GrpE, Plus(WS), Alt(NumWords), Wb>>
\* dirampas\s*(?:untuk\s*(?:di\s*)?dimusnahkan)\b
Dirampas ==
    <<Lit(<<"d","i","r","a","m","p","a","s">>), Star(WS), Lit(<<"u","n","t","u","k">>), Star(WS), OptGrp(<<Lit(<<"d","i">>), Star(WS)>>), Lit(<<"d","i","m","u","s","n","a","h","k","a","n">>), Wb>>
\* dirampas\s*(?:untuk\s*(?:di\s*)?dimusnahkan)\b[\s\S]*$
DirampasToEnd == Dirampas \o <<NRep({}, 0, -1), Eol>>
\* \s+([,.;:])
SpaceBeforePunct == <<Plus(WS), GrpS, One({",", ".", ";", ":"}), GrpE>>
\* ;\s*
SemiSpace == <<Lit(<<";">>), Star(WS)>>
\* ^[,.;:]+
LeadPunct == <<Bol, Plus({",", ".", ";", ":"})>>
\* [,.;:]+$
TailPunct == <<Plus({",", ".", ";", ":"}), Eol>>
\* [^\x00-\x7F]+
NonAsciiRun == <<Plus(NonAscii)>>
\* \n+
NewlineRun == <<Plus({"\n"})>>

(***************************************************************************)
(* DocumentParser (Overview_new.py)                                        *)
(***************************************************************************)
BUKTI_LIMIT == 1500
AMAR_LIMIT == 3000
AMAR_WINDOW == 4000
MARKER_OFFSET == 50
Ellipsis == <<".", ".", ".">>

\* (a variant: the pattern whose match starts leftmost in the text is used)
LeftmostMatching(pats, text) ==
    LET js == {j \in 1..Len(pats) : Search(pats[j], TRUE, text).ok}
    IN  IF js = {} THEN 0
        ELSE CHOOSE j \in js : \A k \in js :
                 \/ Search(pats[j], TRUE, text).b < Search(pats[k], TRUE, text).b
                 \/ Search(pats[j], TRUE, text).b = Search(pats[k], TRUE, text).b /\ j <= k

\* the index of the first pattern of the list that matches the text, 0 if none does:
\* the loop "for pattern in self.patterns[...]: if match := re.search(...)"
FirstMatching(pats, text) ==
    LET js == {j \in 1..Len(pats) : Search(pats[j], TRUE, text).ok}
    IN  IF js = {} THEN 0 ELSE MinOf(js)

\* match.group(1)
Group1(text, m) == SubSeq(text, m.gs, m.ge - 1)
\* match.group(0)
Group0(text, m) == SubSeq(text, m.b, m.e - 1)

extract_nomor_putusan(text) ==
    LET j == FirstMatching(NomorPatterns, text)
    IN  IF j = 0 THEN SENTINEL
        ELSE Strip(Group1(text, Search(NomorPatterns[j], TRUE, text)))

extract_lembaga_peradilan(text) == PN_YOGYAKARTA

\* A statement  s = re.sub(pattern, repl, s)  or  s = s.strip()  of a cleaning function
SubStmt(re, ic, repl) == [op |-> "sub", re |-> re, ic |-> ic, repl |-> repl]
StripStmt == [op |-> "strip"]
Exec(stmt, s) == IF stmt.op = "strip" THEN Strip(s) ELSE Sub(stmt.re, stmt.ic, stmt.repl, s)

\* The statements stmts[lo..hi] executed in order on s (split in halves).  No
\* statement changes the empty text.
RECURSIVE Run(_, _, _, _)
Run(stmts, lo, hi, s) ==
    IF Len(s) = 0 \/ lo > hi THEN s
    ELSE IF lo = hi THEN Exec(stmts[lo], s)
    ELSE Run(stmts, ((lo + hi) \div 2) + 1, hi, Run(stmts, lo, (lo + hi) \div 2, s))

\* the statements of _remove_page_and_putusan_markers (lines 128-142)
MarkerStmts ==
    << SubStmt(PageMarker, TRUE, <<" ">>),
       SubStmt(PutusanMarker, TRUE, <<" ">>),
       SubStmt(YykMarker, TRUE, <<" ">>),
       SubStmt(CaseMarker, TRUE, <<" ">>),
       SubStmt(WsRun, FALSE, <<" ">>),
       StripStmt >>

remove_page_and_putusan_markers(text) == Run(MarkerStmts, 1, Len(MarkerStmts), text)

\* the statements of _clean_bukti_text (lines 78-124)
CleanStmts ==
    << SubStmt(UniSymbols, FALSE, <<" ">>),
       SubStmt(ListMarker, TRUE, <<>>),
       SubStmt(DashMarker, FALSE, <<>>),
       SubStmt(NotAllowed, FALSE, <<" ">>),
       SubStmt(ColonSemiRun, FALSE, <<";">>),
       SubStmt(ColonSemiSpaced, FALSE, <<";">>),
       SubStmt(SemiRun, FALSE, <<";">>),
       SubStmt(CommaRun, FALSE, <<",">>),
       SubStmt(NumberWord, TRUE, <<"\\1">>),
       SubStmt(DirampasToEnd, TRUE, <<>>),
       SubStmt(Dirampas, TRUE, <<>>),
       SubStmt(YykMarker, TRUE, <<>>),
       SubStmt(SpaceBeforePunct, FALSE, <<"\\1">>),
       SubStmt(SemiSpace, FALSE, <<";", " ">>),
       SubStmt(WsRun, FALSE, <<" ">>),
       StripStmt,
       SubStmt(LeadPunct, FALSE, <<>>),
       SubStmt(TailPunct, FALSE, <<>>) >>

clean_bukti_text(bukti) == Run(CleanStmts, 1, Len(CleanStmts), bukti)

\* s.rsplit(' ', 1)[0]: s up to its last space, the whole of s if it has none
RSplitHead(s) ==
    LET n == Len(s)
        back == CHOOSE j \in 0..n : /\ j = n \/ s[n - j] = " "
                                    /\ \A k \in 0..(j - 1) : s[n - k] # " "
    IN  IF back = n THEN s ELSE SubSeq(s, 1, n - back - 1)

\* if len(s) > limit: s = s[:limit].rsplit(' ', 1)[0] + '...'
Truncate(s, limit) ==
    IF Len(s) > limit THEN RSplitHead(SubSeq(s, 1, limit)) \o Ellipsis ELSE s

\* bullets and numbered items normalised to "; " (lines 58-59)
BulletStmts ==
    << SubStmt(BulletItem, FALSE, <<";", " ">>),
       SubStmt(NumberedItem, FALSE, <<";", " ">>) >>

\* bukti as it stands before the length limit is applied (lines 55-68)
BuktiCleaned(text, j) ==
    Strip(clean_bukti_text(remove_page_and_putusan_markers(
        Run(BulletStmts, 1, Len(BulletStmts),
            Strip(Group1(text, Search(BuktiPatterns[j], TRUE, text)))))))

extract_barang_bukti(text) ==
    LET j == FirstMatching(BuktiPatterns, text)
    IN  IF j = 0 THEN SENTINEL ELSE Truncate(BuktiCleaned(text, j), BUKTI_LIMIT)

\* text.replace('\r', '')
DropCR(text) == SelectSeq(text, LAMBDA c : c # "\r")

\* (a variant: the window is not cut at the next header line)
WholeWindow(tn, b) ==
    SubSeq(tn, b, IF b + AMAR_WINDOW - 1 < Len(tn) THEN b + AMAR_WINDOW - 1 ELSE Len(tn))

\* amar_block as cut from text_norm (lines 150-159); b is the anchor's position
AmarBlock(tn, b) ==
    LET n == Len(tn)
        last == IF b + AMAR_WINDOW - 1 < n THEN b + AMAR_WINDOW - 1 ELSE n
        next_marker == Search(NextMarker, FALSE, SubSeq(tn, b + MARKER_OFFSET, last))
    IN  IF next_marker.ok
        THEN SubSeq(tn, b, b + MARKER_OFFSET + next_marker.b - 2)
        ELSE SubSeq(tn, b, last)

\* bullets and whitespace normalised, non-ASCII characters removed (lines 165-169)
AmarStmts ==
    << SubStmt(BulletItem, FALSE, <<";", " ">>),
       SubStmt(WsRun, FALSE, <<" ">>),
       StripStmt,
       SubStmt(NonAsciiRun, FALSE, <<" ">>) >>

\* amar_block as it stands before the length limit is applied (lines 162-169)
AmarCleaned(block) ==
    Run(AmarStmts, 1, Len(AmarStmts), remove_page_and_putusan_markers(block))

\* the fallback (lines 177-184)
AmarFallback(text) ==
    LET text_flat == Sub(NewlineRun, FALSE, <<" ">>, text)
        j == FirstMatching(AmarPatterns, text_flat)
    IN  IF j = 0 THEN SENTINEL
        ELSE Sub(WsRun, FALSE, <<" ">>,
                 Strip(Group0(text_flat, Search(AmarPatterns[j], TRUE, text_flat))))

extract_amar_putusan(text) ==
    LET text_norm == DropCR(text)
        start_match == Search(AmarAnchor, TRUE, text_norm)
    IN  IF start_match.ok
        THEN Truncate(AmarCleaned(AmarBlock(text_norm, start_match.b)), AMAR_LIMIT)
        ELSE AmarFallback(text)

(***************************************************************************)
(* State                                                                   *)
(***************************************************************************)
VARIABLES
    \* stage 2, one file (Overview_new.py, main, lines 197-208)
    text,               \* the text read from the file
    row,                \* the fields extracted from text so far
    \* _clean_bukti_text applied repeatedly
    cl,                 \* [n: applications so far, cur: the text, prev: the text before]
    \* stage 2 (Overview_new.py, main)
    files,              \* the texts of the sorted .txt files
    file_idx,           \* the number of files the loop has gone through
    data_list,          \* the rows extracted so far
    attempts,           \* the calls of df.to_excel made: [path, result]
    console,            \* what has been printed
    pc2,                \* where main is: loop, save, fallback, columns, done, crashed
    \* stage 1 (casebase.py, main and process_pdf)
    listing,            \* os.listdir(input_folder)
    pdf_files,          \* the sorted names of the PDF files
    workers,            \* args.workers
    task,               \* per submitted document: the state of its process_pdf call
    stats,              \* text_processor.stats
    written,            \* the output files written: [path, idx, filename]
    consumed,           \* per document: how often the progress loop took its result
    report,             \* the final statistics printed
    pc1,                \* where main is: start, pool, loop, done, no_files, fatal
    \* stage 1, one call of bersihkan_teks (casebase.py, lines 126-161)
    bt                  \* [pc, teks, lines, i, hasil_bersih, fate, before, out]

parserVars == <<text, row>>
cleanVars == <<cl>>
mainVars == <<files, file_idx, data_list, attempts, console, pc2>>
poolVars == <<listing, pdf_files, workers, task, stats, written, consumed, report, pc1>>
linesVars == <<bt>>
vars == <<parserVars, cleanVars, mainVars, poolVars, linesVars>>

\* the value of a field that has not been extracted yet
None == <<"None">>

\* the parts of the state that a specification does not use stay as they are here
IdleParser ==
    /\ text = <<>>
    /\ row = [nomor_putusan |-> None, lembaga_peradilan |-> None,
              barang_bukti |-> None, amar_putusan |-> None]
IdleClean == cl = [n |-> 0, cur |-> <<>>, prev |-> <<>>]
IdleMain ==
    /\ files = <<>> /\ file_idx = 0 /\ data_list = <<>>
    /\ attempts = <<>> /\ console = <<>> /\ pc2 = "idle"
IdlePool ==
    /\ listing = <<>> /\ pdf_files = <<>> /\ workers = 0 /\ task = <<>>
    /\ stats = [total_chars_removed |-> 0, total_lines_removed |-> 0]
    /\ written = <<>> /\ consumed = <<>> /\ report = <<>> /\ pc1 = "idle"
IdleLines ==
    bt = [pc |-> "idle", teks |-> <<>>, lines |-> <<>>, i |-> 0, hasil_bersih |-> <<>>,
          fate |-> <<>>, before |-> 0, out |-> <<>>]

(***************************************************************************)
(* The texts the extractors are run on: short judgments, judgments whose   *)
(* verdict is followed by a header line at a varying distance, and texts   *)
(* longer than the length limits.                                          *)
(***************************************************************************)
Fill(c, n) == [i \in 1..n |-> c]
\* 'Barang bukti berupa: item A; item B\nMENGADILI\nMenyatakan Terdakwa bersalah'
TxtItems == <<"B","a","r","a","n","g"," ","b","u","k","t","i"," ","b","e","r","u","p","a",":"," ","i","t","e","m"," ","A",";"," ","i","t","e","m"," ","B","\n","M","E","N","G","A","D","I","L","I","\n","M","e","n","y","a","t","a","k","a","n"," ","T","e","r","d","a","k","w","a"," ","b","e","r","s","a","l","a","h">>
\* 'Barang bukti berupa: pisau dapur; hp merah; tas\nMENETAPKAN'
TxtItemsThree == <<"B","a","r","a","n","g"," ","b","u","k","t","i"," ","b","e","r","u","p","a",":"," ","p","i","s","a","u"," ","d","a","p","u","r",";"," ","h","p"," ","m","e","r","a","h",";"," ","t","a","s","\n","M","E","N","E","T","A","P","K","A","N">>
\* 'Barang bukti berupa: pisau MENGADILI'
TxtOneItem == <<"B","a","r","a","n","g"," ","b","u","k","t","i"," ","b","e","r","u","p","a",":"," ","p","i","s","a","u"," ","M","E","N","G","A","D","I","L","I">>
\* 'Barang bukti berupa: MENGADILI'
TxtEmptyBukti == <<"B","a","r","a","n","g"," ","b","u","k","t","i"," ","b","e","r","u","p","a",":"," ","M","E","N","G","A","D","I","L","I">>
\* 'barang bukti berupa:'
TxtBuktiAtEnd == <<"b","a","r","a","n","g"," ","b","u","k","t","i"," ","b","e","r","u","p","a",":">>
\* 'terbukti ; MENGINGAT'
TxtPunctOnly == <<"t","e","r","b","u","k","t","i"," ",";"," ","M","E","N","G","I","N","G","A","T">>
\* 'Barang bukti berupa:\n- pisau\n- 2 dua unit hp\nMENETAPKAN'
TxtBullets == <<"B","a","r","a","n","g"," ","b","u","k","t","i"," ","b","e","r","u","p","a",":","\n","-"," ","p","i","s","a","u","\n","-"," ","2"," ","d","u","a"," ","u","n","i","t"," ","h","p","\n","M","E","N","E","T","A","P","K","A","N">>
\* 'menetapkan barang bukti berupa:\n1. pisau\n2) 12 dua belas butir pil\nMembebankan biaya'
TxtNumbered == <<"m","e","n","e","t","a","p","k","a","n"," ","b","a","r","a","n","g"," ","b","u","k","t","i"," ","b","e","r","u","p","a",":","\n","1","."," ","p","i","s","a","u","\n","2",")"," ","1","2"," ","d","u","a"," ","b","e","l","a","s"," ","b","u","t","i","r"," ","p","i","l","\n","M","e","m","b","e","b","a","n","k","a","n"," ","b","i","a","y","a">>
\* 'telah ditemukan x Barang bukti berupa: y z MENGADILI'
TxtEarlierLater == <<"t","e","l","a","h"," ","d","i","t","e","m","u","k","a","n"," ","x"," ","B","a","r","a","n","g"," ","b","u","k","t","i"," ","b","e","r","u","p","a",":"," ","y"," ","z"," ","M","E","N","G","A","D","I","L","I">>
\* 'ditemukan sabu mengadili sendiri'
TxtLowerStop == <<"d","i","t","e","m","u","k","a","n"," ","s","a","b","u"," ","m","e","n","g","a","d","i","l","i"," ","s","e","n","d","i","r","i">>
\* 'terbukti a Tidak ditemukan'
TxtSentinelLike == <<"t","e","r","b","u","k","t","i"," ","a"," ","T","i","d","a","k"," ","d","i","t","e","m","u","k","a","n">>
\* 'tidak ada apa apa'
TxtNone == <<"t","i","d","a","k"," ","a","d","a"," ","a","p","a"," ","a","p","a">>
\* ''
TxtEmpty == <<>>
\* 'Putusan Nomor 185/Pid.Sus/2023/PN YYK\nMenyatakan Terdakwa bersalah'
TxtNomor == <<"P","u","t","u","s","a","n"," ","N","o","m","o","r"," ","1","8","5","/","P","i","d",".","S","u","s","/","2","0","2","3","/","P","N"," ","Y","Y","K","\n","M","e","n","y","a","t","a","k","a","n"," ","T","e","r","d","a","k","w","a"," ","b","e","r","s","a","l","a","h">>
\* 'No. 12/a/YYK lalu Nomor: 34/b/PN.YYK'
TxtNomorTwo == <<"N","o","."," ","1","2","/","a","/","Y","Y","K"," ","l","a","l","u"," ","N","o","m","o","r",":"," ","3","4","/","b","/","P","N",".","Y","Y","K">>
\* 'Putusan No: 7/Pid/2020/PN YYK'
TxtNomorPutusanNo == <<"P","u","t","u","s","a","n"," ","N","o",":"," ","7","/","P","i","d","/","2","0","2","0","/","P","N"," ","Y","Y","K">>
\* 'no 5-x/y/yyk'
TxtNomorBare == <<"n","o"," ","5","-","x","/","y","/","y","y","k">>
\* 'terbukti: x pisau hal 2 dari 17 hal yyk; tas case_12 MENYATAKAN'
TxtPageMarker == <<"t","e","r","b","u","k","t","i",":"," ","x"," ","p","i","s","a","u"," ","h","a","l"," ","2"," ","d","a","r","i"," ","1","7"," ","h","a","l"," ","y","y","k",";"," ","t","a","s"," ","c","a","s","e","_","1","2"," ","M","E","N","Y","A","T","A","K","A","N">>
\* 'Barang bukti berupa: x pisau; dirampas untuk dimusnahkan; tas MENGADILI'
TxtDirampas == <<"B","a","r","a","n","g"," ","b","u","k","t","i"," ","b","e","r","u","p","a",":"," ","x"," ","p","i","s","a","u",";"," ","d","i","r","a","m","p","a","s"," ","u","n","t","u","k"," ","d","i","m","u","s","n","a","h","k","a","n",";"," ","t","a","s"," ","M","E","N","G","A","D","I","L","I">>
\* 'terbukti: \u2022 x pisau * besar ,, (1 satu) buah:; tas'
TxtSymbols == <<"t","e","r","b","u","k","t","i",":"," ","U+2022"," ","x"," ","p","i","s","a","u"," ","*"," ","b","e","s","a","r"," ",",",","," ","(","1"," ","s","a","t","u",")"," ","b","u","a","h",":",";"," ","t","a","s">>
\* 'Menyatakan\rterdakwa bersalah\nKEDUA lain'
TxtFallback == <<"M","e","n","y","a","t","a","k","a","n","\r","t","e","r","d","a","k","w","a"," ","b","e","r","s","a","l","a","h","\n","K","E","D","U","A"," ","l","a","i","n">>
\* 'MENYATAKAN\r\rTerdakwa   bebas'
TxtFallbackEnd == <<"M","E","N","Y","A","T","A","K","A","N","\r","\r","T","e","r","d","a","k","w","a"," "," "," ","b","e","b","a","s">>
\* 'x y\nMenyatakan terdakwa bersalah dan dihukum'
TxtAmarPlain == <<"x"," ","y","\n","M","e","n","y","a","t","a","k","a","n"," ","t","e","r","d","a","k","w","a"," ","b","e","r","s","a","l","a","h"," ","d","a","n"," ","d","i","h","u","k","u","m">>
\* 'Menyatakan\r\nTerdakwa \u00e9 bersalah \u2022 hal 3 dari 9'
TxtAmarCrLf == <<"M","e","n","y","a","t","a","k","a","n","\r","\n","T","e","r","d","a","k","w","a"," ","U+00E9"," ","b","e","r","s","a","l","a","h"," ","U+2022"," ","h","a","l"," ","3"," ","d","a","r","i"," ","9">>
ShortTexts ==
    {TxtItems, TxtItemsThree, TxtOneItem, TxtEmptyBukti,
     TxtBuktiAtEnd, TxtPunctOnly, TxtBullets, TxtNumbered,
     TxtEarlierLater, TxtLowerStop, TxtSentinelLike, TxtNone,
     TxtEmpty, TxtNomor, TxtNomorTwo, TxtNomorPutusanNo,
     TxtNomorBare, TxtPageMarker, TxtDirampas, TxtSymbols,
     TxtFallback, TxtFallbackEnd, TxtAmarPlain, TxtAmarCrLf}

\* "Menyatakan Terdakwa "
AnchorText == <<"M","e","n","y","a","t","a","k","a","n"," ","T","e","r","d","a","k","w","a"," ">>
\* the number of characters between the anchor phrase and the line break
HeaderGaps ==
    {0, 5} \cup {MARKER_OFFSET - Len(AnchorText) + d : d \in {-2, -1, 0, 1, 10}}
\* what follows the verdict: header lines, and lines that are no header
\* (indented by six blanks, two capitals only, capitals followed by a digit)
TailHeader == <<"\n","M","E","N","E","T","A","P","K","A","N"," ","b","a","r","a","n","g"," ","b","u","k","t","i">>
TailIndented == <<"\n"," "," ","M","E","N","G","A","D","I","L","I","\n","l","a","i","n">>
TailSixBlanks == <<"\n"," "," "," "," "," "," ","M","E","N","E","T","A","P","K","A","N"," ","x">>
TailTwoCaps == <<"\n","A","B"," ","c","d">>
TailCapsDigit == <<"\n","M","E","N","E","T","A","P","K","A","N","1"," ","x">>
HeaderTails == {TailHeader, TailIndented, TailSixBlanks, TailTwoCaps, TailCapsDigit}
HeaderPrefixes == {<<>>, <<"a"," ","b","\n">>}
HeaderTexts ==
    {pre \o AnchorText \o Fill("x", k) \o tl :
        pre \in HeaderPrefixes, k \in HeaderGaps, tl \in HeaderTails}

LongBuktiNoSpace == <<"t","e","r","b","u","k","t","i",":"," ">> \o Fill("a", BUKTI_LIMIT + 1)
LongBuktiLateSpace == <<"t","e","r","b","u","k","t","i",":"," ","x"," ">> \o Fill("a", BUKTI_LIMIT - 2) \o <<" ","b","b","b","b">>
LongBuktiWords == <<"t","e","r","b","u","k","t","i",":"," ","x"," ">> \o Fill("a", BUKTI_LIMIT - 10) \o <<" ","b","b","b","b"," ","c","c","c","c"," ","d","d","d","d"," ","e","e","e","e">>
LongAmarLateSpace == AnchorText \o Fill("a", AMAR_LIMIT - Len(AnchorText) - 2) \o <<" ","b","b","b","b">>
LongAmarWords == AnchorText \o Fill("a", AMAR_LIMIT - Len(AnchorText) - 10) \o <<" ","b","b","b","b"," ","c","c","c","c"," ","d","d","d","d"," ","e","e","e","e">>
\* the anchor phrase broken by carriage returns: the verdict is found by the fallback
LongAmarFallback ==
    <<"M","e","n","y","a","t","a","k","a","n","\r","\r","T","e","r","d","a","k","w","a"," ">> \o Fill("a", AMAR_LIMIT)
\* a header line at the end of the window, e characters of it inside the window
WindowEdge(e) ==
    AnchorText \o <<"x">> \o Fill(" ", AMAR_WINDOW - Len(AnchorText) - 1 - e)
        \o <<"\n","M","E","N","E","T","A","P","K","A","N"," ","y">>
LongTexts ==
    {LongBuktiNoSpace, LongBuktiLateSpace, LongBuktiWords, LongAmarLateSpace, LongAmarWords,
     LongAmarFallback} \cup {WindowEdge(e) : e \in {1, 3, 4}}

\* "Barang bukti berupa: " followed by items separated by "; " and a header line
Intro == <<"B","a","r","a","n","g"," ","b","u","k","t","i"," ","b","e","r","u","p","a",":"," ">>
Items == [i \in {"item A", "item B", "pisau", "pisau dapur", "hp merah", "tas", "sabu"} |->
            CASE i = "item A" -> <<"i","t","e","m"," ","A">>
              [] i = "item B" -> <<"i","t","e","m"," ","B">>
              [] i = "pisau" -> <<"p","i","s","a","u">>
              [] i = "pisau dapur" -> <<"p","i","s","a","u"," ","d","a","p","u","r">>
              [] i = "hp merah" -> <<"h","p"," ","m","e","r","a","h">>
              [] i = "tas" -> <<"t","a","s">>
              [] i = "sabu" -> <<"s","a","b","u">>]
ItemLists ==
    {<<"item A", "item B">>, <<"pisau dapur", "hp merah", "tas">>, <<"pisau">>,
     <<"sabu", "tas">>, <<"pisau dapur">>}
Headers == {<<"M","E","N","G","A","D","I","L","I">>, <<"M","E","N","E","T","A","P","K","A","N">>}
ItemCases == [items : ItemLists, header : Headers]
\* the items joined by "; "
RECURSIVE JoinItems(_)
JoinItems(items) ==
    IF Len(items) = 0 THEN <<>>
    ELSE IF Len(items) = 1 THEN Items[items[1]]
    ELSE Items[items[1]] \o <<";", " ">> \o JoinItems(Tail(items))
ItemsText(c) ==
    Intro \o JoinItems(c.items) \o <<"\n">> \o c.header
        \o <<"\n","M","e","n","y","a","t","a","k","a","n"," ","T","e","r","d","a","k","w","a"," ","b","e","r","s","a","l","a","h">>
ItemsTexts == {ItemsText(c) : c \in ItemCases}

SampleTexts == ShortTexts \cup ItemsTexts \cup HeaderTexts \cup LongTexts

(***************************************************************************)
(* The extraction of one file's row (main, lines 202-208): the four        *)
(* extractors are called in the order of the dict's keys.                  *)
(***************************************************************************)

InitParser ==
    /\ text \in SampleTexts
    /\ row = [nomor_putusan |-> None, lembaga_peradilan |-> None,
              barang_bukti |-> None, amar_putusan |-> None]
    /\ IdleClean /\ IdleMain /\ IdlePool /\ IdleLines

ExtractNomorPutusan ==
    /\ row.nomor_putusan = None
    /\ row' = [row EXCEPT !.nomor_putusan = extract_nomor_putusan(text)]
    /\ UNCHANGED <<text, cleanVars, mainVars, poolVars, linesVars>>

ExtractLembagaPeradilan ==
    /\ row.nomor_putusan # None /\ row.lembaga_peradilan = None
    /\ row' = [row EXCEPT !.lembaga_peradilan = extract_lembaga_peradilan(text)]
    /\ UNCHANGED <<text, cleanVars, mainVars, poolVars, linesVars>>

ExtractBarangBukti ==
    /\ row.lembaga_peradilan # None /\ row.barang_bukti = None
    /\ row' = [row EXCEPT !.barang_bukti = extract_barang_bukti(text)]
    /\ UNCHANGED <<text, cleanVars, mainVars, poolVars, linesVars>>

ExtractAmarPutusan ==
    /\ row.barang_bukti # None /\ row.amar_putusan = None
    /\ row' = [row EXCEPT !.amar_putusan = extract_amar_putusan(text)]
    /\ UNCHANGED <<text, cleanVars, mainVars, poolVars, linesVars>>

NextParser ==
    \/ ExtractNomorPutusan
    \/ ExtractLembagaPeradilan
    \/ ExtractBarangBukti
    \/ ExtractAmarPutusan

Spec == InitParser /\ [][NextParser]_vars

(***************************************************************************)
(* Properties of the extractors                                            *)
(***************************************************************************)

\* the patterns of a field that match the text
Matching(pats, tx) == {j \in 1..Len(pats) : Search(pats[j], TRUE, tx).ok}

\* the evidence as extracted, before the length limit is applied
BuktiExtracted ==
    IF Matching(BuktiPatterns, text) = {} THEN <<>>
    ELSE BuktiCleaned(text, MinOf(Matching(BuktiPatterns, text)))

\* the position of the anchor phrase in the text without carriage returns
AnchorMatch == Search(AmarAnchor, TRUE, DropCR(text))

\* the verdict as extracted, before the length limit is applied
AmarExtracted ==
    IF AnchorMatch.ok THEN AmarCleaned(AmarBlock(DropCR(text), AnchorMatch.b))
    ELSE AmarFallback(text)

\* C1: every extractor returns a non-empty string, also when a pattern matches
\* and the captured content is empty or is cleaned away.
C1_NonEmpty ==
    /\ row.nomor_putusan # None => Len(row.nomor_putusan) > 0
    /\ row.lembaga_peradilan # None => Len(row.lembaga_peradilan) > 0
    /\ row.barang_bukti # None => Len(row.barang_bukti) > 0
    /\ row.amar_putusan # None => Len(row.amar_putusan) > 0

\* r is s cut to at most limit characters: r ends in the ellipsis, what precedes
\* the ellipsis is a prefix of s, and the cut is at a space of s
CutAtSpace(s, r, limit) ==
    /\ Len(r) <= limit
    /\ Len(r) >= Len(Ellipsis)
    /\ SubSeq(r, Len(r) - Len(Ellipsis) + 1, Len(r)) = Ellipsis
    /\ SubSeq(r, 1, Len(r) - Len(Ellipsis)) = SubSeq(s, 1, Len(r) - Len(Ellipsis))
    /\ s[Len(r) - Len(Ellipsis) + 1] = " "

\* C2: an extracted evidence string longer than 1500 characters, and an extracted
\* verdict longer than 3000, is returned with length at most the limit, ending in
\* "...", cut at a space so that no word is split.
C2_Truncation ==
    /\ (row.barang_bukti # None /\ Len(BuktiExtracted) > BUKTI_LIMIT)
          => CutAtSpace(BuktiExtracted, row.barang_bukti, BUKTI_LIMIT)
    /\ (row.amar_putusan # None /\ row.amar_putusan # SENTINEL
            /\ Len(AmarExtracted) > AMAR_LIMIT)
          => CutAtSpace(AmarExtracted, row.amar_putusan, AMAR_LIMIT)

\* C8: from "Barang bukti berupa: " followed by items separated by "; " and a header
\* line, extract_barang_bukti returns exactly the items, separated by "; ".
C8_ItemsReturned ==
    \A c \in ItemCases :
        (text = ItemsText(c) /\ row.barang_bukti # None)
            => row.barang_bukti = JoinItems(c.items)

\* a header line at position p of tn, as far as it lies in tn[..last]: a line
\* break, at most five whitespace characters, and three or more capitals that
\* end at a word boundary
CapsEnd(tn, q, last) ==
    CHOOSE e \in q..last :
        /\ \A i \in q..e : tn[i] \in Upper
        /\ e = last \/ tn[e + 1] \notin Upper
HeaderLineAt(tn, p, last) ==
    /\ tn[p] = "\n"
    /\ \E k \in 0..5 :
          /\ p + k + 3 <= last
          /\ \A i \in 1..k : tn[p + i] \in WS
          /\ \A i \in 1..3 : tn[p + k + i] \in Upper
          /\ \/ CapsEnd(tn, p + k + 1, last) = last
             \/ tn[CapsEnd(tn, p + k + 1, last) + 1] \notin WordCh

\* the end of the window that starts at the anchor, at position a of tn
WindowEnd(tn, a) == IF a + AMAR_WINDOW - 1 < Len(tn) THEN a + AMAR_WINDOW - 1 ELSE Len(tn)

\* the header lines of the window that start from position `from` on
HeadersFrom(tn, a, from) ==
    {p \in from..WindowEnd(tn, a) : HeaderLineAt(tn, p, WindowEnd(tn, a))}

\* the verdict that ends before the first of the header lines hs
VerdictUpTo(tn, a, hs) ==
    Truncate(AmarCleaned(SubSeq(tn, a, MinOf(hs) - 1)), AMAR_LIMIT)

\* C9 as stated: with the anchor in the text and a header line anywhere after it in
\* the window, the verdict is the text from the anchor to before that header line.
C9_HeaderAnywhere ==
    (row.amar_putusan # None /\ AnchorMatch.ok
        /\ HeadersFrom(DropCR(text), AnchorMatch.b, AnchorMatch.b + 1) # {})
    => row.amar_putusan =
          VerdictUpTo(DropCR(text), AnchorMatch.b,
                      HeadersFrom(DropCR(text), AnchorMatch.b, AnchorMatch.b + 1))

\* C9 (amended): with the anchor in the text and a header line that starts 50
\* characters or more after the start of the anchor, in the window, the verdict is
\* the text from the anchor to before the first such header line.
C9_HeaderAfterOffset ==
    (row.amar_putusan # None /\ AnchorMatch.ok
        /\ HeadersFrom(DropCR(text), AnchorMatch.b, AnchorMatch.b + MARKER_OFFSET) # {})
    => row.amar_putusan =
          VerdictUpTo(DropCR(text), AnchorMatch.b,
                      HeadersFrom(DropCR(text), AnchorMatch.b, AnchorMatch.b + MARKER_OFFSET))

\* a verdict was cut at a header line, and text followed the header line
C9_Witness ==
    /\ row.amar_putusan # None /\ AnchorMatch.ok
    /\ HeadersFrom(DropCR(text), AnchorMatch.b, AnchorMatch.b + MARKER_OFFSET) # {}
    /\ Len(row.amar_putusan) > MARKER_OFFSET
    /\ Len(row.amar_putusan) < AMAR_LIMIT

\* the case number and the evidence come from the first pattern that matches
FirstMatchWins ==
    /\ row.nomor_putusan # None =>
          row.nomor_putusan =
            IF Matching(NomorPatterns, text) = {} THEN SENTINEL
            ELSE Strip(Group1(text, Search(NomorPatterns[MinOf(Matching(NomorPatterns, text))],
                                           TRUE, text)))
    /\ row.barang_bukti # None =>
          row.barang_bukti =
            IF Matching(BuktiPatterns, text) = {} THEN SENTINEL
            ELSE Truncate(BuktiExtracted, BUKTI_LIMIT)

\* the text with its line breaks replaced by spaces, as the fallback reads it
TextFlat == Sub(NewlineRun, FALSE, <<" ">>, text)

\* the sentinel is the verdict exactly when there is no anchor and no fallback match
VerdictSentinel ==
    row.amar_putusan # None =>
        (row.amar_putusan = SENTINEL
            <=> (~AnchorMatch.ok /\ Matching(AmarPatterns, TextFlat) = {}))

\* C10 as stated: the first matching pattern wins, and the sentinel is returned
\* exactly when no pattern of the field matches.
C10_SentinelIff ==
    /\ FirstMatchWins
    /\ VerdictSentinel
    /\ row.nomor_putusan # None =>
          (row.nomor_putusan = SENTINEL <=> Matching(NomorPatterns, text) = {})
    /\ row.barang_bukti # None =>
          (row.barang_bukti = SENTINEL <=> Matching(BuktiPatterns, text) = {})

\* C10 (amended): the first matching pattern wins; the case number and the verdict
\* are the sentinel exactly when nothing matches; the evidence is the sentinel when
\* nothing matches, and otherwise the cleaned capture of the first matching pattern
\* (which may itself read "Tidak ditemukan").
C10_FirstMatchWins ==
    /\ FirstMatchWins
    /\ VerdictSentinel
    /\ row.nomor_putusan # None =>
          (row.nomor_putusan = SENTINEL <=> Matching(NomorPatterns, text) = {})
    /\ (row.barang_bukti # None /\ Matching(BuktiPatterns, text) = {})
          => row.barang_bukti = SENTINEL

\* a later pattern matches earlier text, and the evidence is the capture of the
\* first pattern in the list
C10_Witness ==
    /\ row.amar_putusan # None
    /\ Cardinality(Matching(BuktiPatterns, text)) > 1
    /\ \E j \in Matching(BuktiPatterns, text) :
          Search(BuktiPatterns[j], TRUE, text).b
            < Search(BuktiPatterns[MinOf(Matching(BuktiPatterns, text))], TRUE, text).b
    /\ row.barang_bukti # SENTINEL

(***************************************************************************)
(* _clean_bukti_text applied to a text, and again to its own output        *)
(***************************************************************************)
MaxCleanLen == 5
MaxCleanings == 2
CleanAlphabet == {"a", "b", " ", ";"}

\* the texts over the alphabet of length at most n
RECURSIVE TextsUpTo(_)
TextsUpTo(n) ==
    IF n = 0 THEN {<<>>}
    ELSE TextsUpTo(n - 1) \cup
         {Append(s, c) : s \in {t \in TextsUpTo(n - 1) : Len(t) = n - 1}, c \in CleanAlphabet}

\* evidence as it is found in judgments
CleanSamples ==
    { <<"p","i","s","a","u"," ","d","a","p","u","r",";"," ","h","p"," ","m","e","r","a","h",";"," ","t","a","s">>,
      <<"1","."," ","p","i","s","a","u",";"," ","2","."," ","t","a","s">>,
      <<"-"," ","2"," ","d","u","a"," ","u","n","i","t"," ","h","p",":",";"," ","t","a","s">>,
      <<"s","a","b","u",";"," ","t","a","s">> }

CleanInputs == TextsUpTo(MaxCleanLen) \cup CleanSamples

InitClean ==
    /\ cl \in [n : {0}, cur : CleanInputs, prev : {<<>>}]
    /\ IdleParser /\ IdleMain /\ IdlePool /\ IdleLines

CleanAgain ==
    /\ cl.n < MaxCleanings
    /\ cl' = [n |-> cl.n + 1, cur |-> clean_bukti_text(cl.cur), prev |-> cl.cur]
    /\ UNCHANGED <<parserVars, mainVars, poolVars, linesVars>>

NextClean == CleanAgain

CleanSpec == InitClean /\ [][NextClean]_vars

\* C7: _clean_bukti_text applied to its own output changes nothing.
C7_Idempotent == cl.n >= 2 => cl.cur = cl.prev

(***************************************************************************)
(* Stage 2: main of Overview_new.py                                        *)
(***************************************************************************)
MaxFiles == 2

\* the texts of the files in data/raw
MainTexts == {TxtItems, TxtNomor, TxtNone}

\* output_file, and the fallback name putusan_summary_{ts}.xlsx (lines 11, 229-230)
OutputFile == <<"putusan_summary", ".xlsx">>
FallbackFile(ts) == <<"putusan_summary", "_", ts, ".xlsx">>
\* datetime.now().strftime('%Y%m%d_%H%M%S')
Timestamps == {"20240101_090000", "20240101_090001"}

\* how a call of df.to_excel ends
WriteResults == {"ok", "PermissionError", "Exception"}

\* the dict appended to data_list (lines 202-208)
RowOf(idx, tx) ==
    [no |-> idx,
     nomor_putusan |-> extract_nomor_putusan(tx),
     lembaga_peradilan |-> extract_lembaga_peradilan(tx),
     barang_bukti |-> extract_barang_bukti(tx),
     amar_putusan |-> extract_amar_putusan(tx)]

InitMain ==
    /\ files \in UNION {[1..n -> MainTexts] : n \in 0..MaxFiles}
    /\ file_idx = 0
    /\ data_list = <<>>
    /\ attempts = <<>>
    /\ console = <<>>
    /\ pc2 = "loop"
    /\ IdleParser /\ IdleClean /\ IdlePool /\ IdleLines

\* one pass of the loop body without an exception (lines 196-210)
ProcessFile ==
    /\ pc2 = "loop" /\ file_idx < Len(files)
    /\ file_idx' = file_idx + 1
    /\ data_list' = Append(data_list, RowOf(file_idx + 1, files[file_idx + 1]))
    /\ console' = Append(console, "Processed")
    /\ UNCHANGED <<files, attempts, pc2, parserVars, cleanVars, poolVars, linesVars>>

\* one pass of the loop body that raises: the file is skipped (lines 212-214)
SkipFile ==
    /\ pc2 = "loop" /\ file_idx < Len(files)
    /\ file_idx' = file_idx + 1
    /\ console' = Append(console, "Error processing")
    /\ UNCHANGED <<files, data_list, attempts, pc2, parserVars, cleanVars, poolVars, linesVars>>

\* after the loop: main returns if no row was extracted (lines 216-218)
EndLoop ==
    /\ pc2 = "loop" /\ file_idx = Len(files)
    /\ IF data_list = <<>>
       THEN pc2' = "done" /\ console' = Append(console, "No documents were processed")
       ELSE pc2' = "save" /\ console' = console
    /\ UNCHANGED <<files, file_idx, data_list, attempts, parserVars, cleanVars, poolVars, linesVars>>

\* where main goes after the first df.to_excel (lines 224-227): an exception other
\* than PermissionError is not caught
AfterPrimary(r) ==
    IF r = "ok" THEN "columns" ELSE IF r = "PermissionError" THEN "fallback" ELSE "crashed"

\* (a variant: the fallback is tried again until it succeeds)
AgainUntilSaved(r) == IF r = "ok" THEN "columns" ELSE "fallback"

\* where main goes after the second df.to_excel (lines 231-235): every Exception
\* is caught
AfterFallback(r) == "columns"

\* df.to_excel(output_file, ...) (lines 224-226)
SavePrimary ==
    /\ pc2 = "save"
    /\ \E r \in WriteResults :
          /\ attempts' = Append(attempts, [path |-> OutputFile, result |-> r])
          /\ console' = IF r = "ok" THEN Append(console, "Saved") ELSE console
          /\ pc2' = AfterPrimary(r)
    /\ UNCHANGED <<files, file_idx, data_list, parserVars, cleanVars, poolVars, linesVars>>

\* df.to_excel(fallback, ...) under the timestamped name (lines 228-235)
SaveFallback ==
    /\ pc2 = "fallback"
    /\ \E ts \in Timestamps, r \in WriteResults :
          /\ attempts' = Append(attempts, [path |-> FallbackFile(ts), result |-> r])
          /\ console' = Append(console, IF r = "ok" THEN "Saved (fallback)"
                                                   ELSE "Failed to save Excel file")
          /\ pc2' = AfterFallback(r)
    /\ UNCHANGED <<files, file_idx, data_list, parserVars, cleanVars, poolVars, linesVars>>

\* the closing prints (lines 236-241)
PrintColumns ==
    /\ pc2 = "columns"
    /\ console' = Append(console, "Columns in the Excel file")
    /\ pc2' = "done"
    /\ UNCHANGED <<files, file_idx, data_list, attempts, parserVars, cleanVars, poolVars, linesVars>>

NextMain ==
    \/ ProcessFile
    \/ SkipFile
    \/ EndLoop
    \/ SavePrimary
    \/ SaveFallback
    \/ PrintColumns

MainSpec == InitMain /\ [][NextMain]_vars

\* the attempts that wrote the table
Saved == {k \in 1..Len(attempts) : attempts[k].result = "ok"}
\* has the message been printed?
Printed(msg) == \E k \in 1..Len(console) : console[k] = msg

\* C6: a permission failure of the write to the primary file is followed by exactly
\* one more attempt, under a timestamped name; if that fails too, the failure is
\* reported and main ends normally with no table written.  At most two attempts
\* are made and at most one of them writes the table.
C6_WriteRetriedOnce ==
    /\ Len(attempts) <= 2
    /\ Cardinality(Saved) <= 1
    /\ Len(attempts) >= 1 => attempts[1].path = OutputFile
    /\ Len(attempts) = 2 =>
          /\ attempts[1].result = "PermissionError"
          /\ \E ts \in Timestamps : attempts[2].path = FallbackFile(ts)
          /\ attempts[2].path # OutputFile
    /\ (Len(attempts) >= 1 /\ attempts[1].result = "PermissionError"
            /\ pc2 \in {"columns", "done", "crashed"})
          => Len(attempts) = 2
    /\ (Len(attempts) = 2 /\ attempts[2].result # "ok")
          => /\ pc2 \in {"columns", "done"}
             /\ Printed("Failed to save Excel file")
             /\ Saved = {}

\* both writes failed, and main came to its end
C6_Witness ==
    /\ pc2 = "done"
    /\ Len(attempts) = 2
    /\ attempts[1].result = "PermissionError"
    /\ attempts[2].result = "PermissionError"

(***************************************************************************)
(* Stage 1 (casebase.py): Config and TextProcessor                         *)
(***************************************************************************)
\* Config.HAPUS_FRASA
HAPUS_FRASA ==
    << <<"m","a","h","k","a","m","a","h"," ","a","g","u","n","g"," ","r","e","p","u","b","l","i","k"," ","i","n","d","o","n","e","s","i","a">>,
       <<"d","i","r","e","k","t","o","r","i"," ","p","u","t","u","s","a","n">>,
       <<"h","k","a","m","a">>,
       <<"s","a","l","i","n","a","n"," ","p","u","t","u","s","a","n">>,
       <<"p","u","t","u","s","a","n",".","m","a","h","k","a","m","a","h","a","g","u","n","g",".","g","o",".","i","d">>,
       <<"h","a","l","a","m","a","n">>,
       <<"e","m","a","i","l"," ","k","e","p","a","n","i","t","e","r","a","a","n","m","a","h","k","a","m","a","h","a","g","u","n","g","g","o","i","d">>,
       <<"t","e","l","p">>,
       <<"f","a","x">>,
       <<"w","e","b","s","i","t","e">>,
       <<"a","h","k","a","m","a","h"," ","a","g","u","n","g">>,
       <<"m","a","h"," ","a","g","u","n","g"," ","r","e","p","u","b","l","i","k"," ","i","n","d","o","n","e","s","i","a">>,
       <<"b","l","i","k"," ","i","n","d","o","n","e","s","i">> >>
\* Config.PEMISAH_PARAGRAF
PEMISAH_PARAGRAF ==
    << <<"m","e","n","i","m","b","a","n","g"," ","b","a","h","w","a">>,
       <<"m","e","m","b","a","c","a">>,
       <<"m","e","n","g","a","d","i","l","i">>,
       <<"m","e","m","u","t","u","s","k","a","n">>,
       <<"t","e","r","d","a","k","w","a">>,
       <<"m","e","n","y","a","t","a","k","a","n">>,
       <<"m","e","n","j","a","t","u","h","k","a","n">>,
       <<"m","e","m","p","e","r","h","a","t","i","k","a","n">> >>
\* Config.DISCLAIMER_PATTERN (used with re.DOTALL):
\* disclaimer\s+kepaniteraan mahkamah agung republik indonesia.+?kami sajikan,?
\*  hal mana akan terus kami perbaiki dari waktu ke[ -]?waktu\.
DISCLAIMER_PATTERN ==
    <<Lit(<<"d","i","s","c","l","a","i","m","e","r">>), Plus(WS), Lit(<<"k","e","p","a","n","i","t","e","r","a","a","n"," ","m","a","h","k","a","m","a","h"," ","a","g","u","n","g"," ","r","e","p","u","b","l","i","k"," ","i","n","d","o","n","e","s","i","a">>),
      LazyNRep({}, 1, -1), Lit(<<"k","a","m","i"," ","s","a","j","i","k","a","n">>), Opt({","}),
      Lit(<<" ","h","a","l"," ","m","a","n","a"," ","a","k","a","n"," ","t","e","r","u","s"," ","k","a","m","i"," ","p","e","r","b","a","i","k","i"," ","d","a","r","i"," ","w","a","k","t","u"," ","k","e">>), Opt({" ", "-"}), Lit(<<"w","a","k","t","u",".">>)>>
\* Config.HAL_PATTERN: hal\s*\d+\s*dari\s*\d+\s*hal\s*putusan nomor.*
HAL_PATTERN ==
    <<Lit(<<"h","a","l">>), Star(WS), Plus(Digit), Star(WS), Lit(<<"d","a","r","i">>), Star(WS), Plus(Digit), Star(WS),
      Lit(<<"h","a","l">>), Star(WS), Lit(<<"p","u","t","u","s","a","n"," ","n","o","m","o","r">>), NRep({"\n"}, 0, -1)>>
\* Config.INAKURASI_PATTERN (used with re.DOTALL):
\* dalam hal anda menemukan inakurasi informasi.+?(?=email|telp|website|$)
INAKURASI_PATTERN ==
    <<Lit(<<"d","a","l","a","m"," ","h","a","l"," ","a","n","d","a"," ","m","e","n","e","m","u","k","a","n"," ","i","n","a","k","u","r","a","s","i"," ","i","n","f","o","r","m","a","s","i">>), LazyNRep({}, 1, -1),
      Ahead(<<<<Lit(<<"e","m","a","i","l">>)>>, <<Lit(<<"t","e","l","p">>)>>, <<Lit(<<"w","e","b","s","i","t","e">>)>>>> \o <<<<Eol>>>>)>>
\* Config.EMAIL_TELP_PATTERN:
\* (email\s*:\s*[^\s\n]+)?\s*(telp\s*:\s*(ext\.?\d{1,5}|ext\.?|)?)
EMAIL_TELP_PATTERN ==
    <<OptGrp(<<Lit(<<"e","m","a","i","l">>), Star(WS), Lit(<<":">>), Star(WS), NRep(WS, 1, -1)>>), Star(WS),
      Lit(<<"t","e","l","p">>), Star(WS), Lit(<<":">>), Star(WS),
      OptGrp(<<Alt(<< <<Lit(<<"e","x","t">>), Opt({"."}), Rep(Digit, 1, 5)>>, <<Lit(<<"e","x","t">>), Opt({"."})>>, <<>> >>)>>)>>
\* Config.PHONE_PATTERN: [-\s]?\d{3,4}[-\s]?\d{3,4}\s*(ext\.?|extension)?\.?\s*\d{1,4}
PHONE_PATTERN ==
    <<Opt(WS \cup {"-"}), Rep(Digit, 3, 4), Opt(WS \cup {"-"}), Rep(Digit, 3, 4), Star(WS),
      OptGrp(<<Alt(<< <<Lit(<<"e","x","t">>), Opt({"."})>>, <<Lit(<<"e","x","t","e","n","s","i","o","n">>)>> >>)>>), Opt({"."}), Star(WS),
      Rep(Digit, 1, 4)>>
\* Config.EXT_PATTERN: \bext[.:]?\s*\d{1,5}\b
EXT_PATTERN == <<Wb, Lit(<<"e","x","t">>), Opt({".", ":"}), Star(WS), Rep(Digit, 1, 5), Wb>>
\* Config.HALAMAN_PATTERN: halaman\s+\d+\s+dari\s+\d+\s+halaman.*
HALAMAN_PATTERN ==
    <<Lit(<<"h","a","l","a","m","a","n">>), Plus(WS), Plus(Digit), Plus(WS), Lit(<<"d","a","r","i">>), Plus(WS), Plus(Digit), Plus(WS),
      Lit(<<"h","a","l","a","m","a","n">>), NRep({"\n"}, 0, -1)>>
\* [ \t]+
BlankRun == <<Plus({" ", "\t"})>>
\* \s*\d+\s*  (re.fullmatch: the pattern must end where the line ends)
NumberLine == <<Star(WS), Plus(Digit), Star(WS), Eol>>
\* string.punctuation without . , - / :  ("U+0060" is the backquote)
EXCLUDE ==
    {"!", "\"", "#", "$", "%", "&", "'", "(", ")", "*", "+", ";", "<", "=", ">", "?", "@",
     "[", "\\", "]", "^", "_", "U+0060", "{", "|", "}", "~"}
\* "pidana", "menjatuhkan": a line with one of these words is kept
Pidana == <<"p","i","d","a","n","a">>
Menjatuhkan == <<"m","e","n","j","a","t","u","h","k","a","n">>

\* the sequences seqs[lo..hi] joined into one (split in halves)
RECURSIVE Concat(_, _, _)
Concat(seqs, lo, hi) ==
    IF lo > hi THEN <<>>
    ELSE IF lo = hi THEN seqs[lo]
    ELSE Concat(seqs, lo, (lo + hi) \div 2) \o Concat(seqs, ((lo + hi) \div 2) + 1, hi)

\* str.lower()
LowerStr(s) ==
    Concat([i \in 1..Len(s) |->
               IF s[i] = DotICh THEN <<"i", CombDotCh>> ELSE <<LowerOf(s[i])>>], 1, Len(s))

\* the patterns normalisasi_teks removes, in the order of its list (lines 100-108)
NormStmts ==
    << SubStmt(DISCLAIMER_PATTERN, TRUE, <<>>),
       SubStmt(HAL_PATTERN, TRUE, <<>>),
       SubStmt(INAKURASI_PATTERN, TRUE, <<>>),
       SubStmt(EMAIL_TELP_PATTERN, TRUE, <<>>),
       SubStmt(PHONE_PATTERN, TRUE, <<>>),
       SubStmt(EXT_PATTERN, TRUE, <<>>),
       SubStmt(HALAMAN_PATTERN, FALSE, <<>>) >>

\* teks.translate(str.maketrans("", "", exclude))
DropPunctuation(s) == SelectSeq(s, LAMBDA c : c \notin EXCLUDE)

\* the text normalisasi_teks returns
normalisasi_teks(teks) ==
    Strip(Sub(BlankRun, FALSE, <<" ">>,
              DropPunctuation(Run(NormStmts, 1, Len(NormStmts), LowerStr(teks)))))

\* what normalisasi_teks adds to stats['total_chars_removed'] (line 122)
CharsRemoved(teks) == Len(teks) - Len(normalisasi_teks(teks))

\* teks.split('\n')
Breaks(s) == {i \in 1..Len(s) : s[i] = "\n"}
BreakNo(s, k) ==
    IF k = 0 THEN 0
    ELSE IF k > Cardinality(Breaks(s)) THEN Len(s) + 1
    ELSE CHOOSE i \in Breaks(s) : Cardinality({j \in Breaks(s) : j <= i}) = k
SplitLines(s) ==
    [k \in 1..(Cardinality(Breaks(s)) + 1) |->
        SubSeq(s, BreakNo(s, k - 1) + 1, BreakNo(s, k) - 1)]

\* len(s.split()): the number of words of s
WordCount(s) == Cardinality({i \in 1..Len(s) : s[i] \notin WS /\ (i = 1 \/ s[i - 1] \in WS)})
\* s.startswith(w)
StartsWith(s, w) == LitAt(w, FALSE, s, 1)
\* w in s
Contains(s, w) == \E i \in 1..Len(s) : LitAt(w, FALSE, s, i)

\* line_lower = line.lower().strip()
LineLower(line) == Strip(LowerStr(line))

\* an empty line, or a line with just a number (line 143)
MAX_FRASA_WORDS == 6
IsBlankOrNumber(line) ==
    Len(LineLower(line)) = 0 \/ MatchFrom(NumberLine, FALSE, line, 1).ok
\* (a variant: a short line that starts with an unwanted phrase, whatever else it holds)
ShortBoilerplate(line) ==
    /\ \E f \in 1..Len(HAPUS_FRASA) : StartsWith(LineLower(line), HAPUS_FRASA[f])
    /\ WordCount(LineLower(line)) <= MAX_FRASA_WORDS
\* a short line that starts with an unwanted phrase and names no sentence (lines 148-150)
IsBoilerplate(line) ==
    /\ \E f \in 1..Len(HAPUS_FRASA) : StartsWith(LineLower(line), HAPUS_FRASA[f])
    /\ WordCount(LineLower(line)) <= MAX_FRASA_WORDS
    /\ ~(Contains(LineLower(line), Pidana) \/ Contains(LineLower(line), Menjatuhkan))
\* the line is dropped, and counted in stats['total_lines_removed']
IsRemoved(line) == IsBlankOrNumber(line) \/ IsBoilerplate(line)
\* the line holds one of the phrases that start a paragraph (line 155)
IsParagraphStart(line) ==
    \E p \in 1..Len(PEMISAH_PARAGRAF) :
        Search(<<Wb, Lit(PEMISAH_PARAGRAF[p]), Wb>>, FALSE, LineLower(line)).ok
\* what the loop appends to hasil_bersih for a line that is kept
KeptLine(line) ==
    IF IsParagraphStart(line) THEN <<"\n">> \o Strip(line) ELSE Strip(line)

\* '\n'.join(lines)
JoinLines(lines) ==
    Concat([k \in 1..Len(lines) |-> IF k = 1 THEN lines[k] ELSE <<"\n">> \o lines[k]],
           1, Len(lines))

\* hasil_bersih, and the number of lines dropped, for the text teks
KeptLines(teks) ==
    LET ls == SplitLines(teks)
        kept == SelectSeq([k \in 1..Len(ls) |-> k], LAMBDA k : ~IsRemoved(ls[k]))
    IN  [k \in 1..Len(kept) |-> KeptLine(ls[kept[k]])]
LinesRemoved(teks) ==
    Cardinality({k \in 1..(Cardinality(Breaks(teks)) + 1) : IsRemoved(SplitLines(teks)[k])})
\* teks_bersih = '\n'.join(hasil_bersih)
teks_bersih(teks) == JoinLines(KeptLines(teks))

\* the text bersihkan_teks returns
bersihkan_teks(teks) == normalisasi_teks(teks_bersih(teks))


(***************************************************************************)
(* Stage 1: main and process_pdf of casebase.py                            *)
(***************************************************************************)
MaxDocs == 2
MaxWorkers == 2

\* the files that may be in the input folder, and the pages of the PDF files
FileA == <<"a",".","p","d","f">>
FileB == <<"B",".","p","d","f">>
FileC == <<"c",".","p","d","f">>
FileD == <<"d",".","P","D","F">>
FileNames == {FileA, FileB, FileC, FileD}
PdfPages ==
    (FileA :> << <<"H","a","l","a","m","a","n"," ","1","\n","M","E","N","G","A","D","I","L","I",":","\n">>,
                 <<"1","2">> >>)
    @@ (FileB :> << <<DotICh,"x">> >>)
    @@ (FileC :> << <<"(","x",")"," ","y","\n">>, <<"7">> >>)
    @@ (FileD :> << <<"x">> >>)

\* the characters of the file names, in the order of their code points
CodeOrder ==
    <<".", "0", "1", "2", "3", "4", "5", "6", "7", "8", "9",
      "A", "B", "C", "D", "E", "F", "G", "H", "I", "J", "K", "L", "M",
      "N", "O", "P", "Q", "R", "S", "T", "U", "V", "W", "X", "Y", "Z", "_",
      "a", "b", "c", "d", "e", "f", "g", "h", "i", "j", "k", "l", "m",
      "n", "o", "p", "q", "r", "s", "t", "u", "v", "w", "x", "y", "z">>
CodePoints ==
    [c \in {CodeOrder[k] : k \in 1..Len(CodeOrder)} |->
        CHOOSE k \in 1..Len(CodeOrder) : CodeOrder[k] = c]
\* ord(c), up to the order
Ord(c) == CodePoints[c]
\* a < b for two str
StrLess(a, b) ==
    \E k \in 1..(Len(b)) :
        /\ \A j \in 1..(k - 1) : j <= Len(a) /\ a[j] = b[j]
        /\ \/ k = Len(a) + 1
           \/ k <= Len(a) /\ Ord(a[k]) < Ord(b[k])
\* f.endswith(".pdf")
IsPdf(f) == Len(f) >= 4 /\ SubSeq(f, Len(f) - 3, Len(f)) = <<".","p","d","f">>
\* (a variant: the names in the order os.listdir gave them)
ListingOrder(names) == names
\* sorted(names)
RECURSIVE sorted(_)
sorted(names) ==
    IF Len(names) = 0 THEN <<>>
    ELSE LET m == CHOOSE k \in 1..Len(names) :
                      \A j \in 1..Len(names) : j = k \/ StrLess(names[k], names[j])
         IN  <<names[m]>> \o sorted(SubSeq(names, 1, m - 1) \o SubSeq(names, m + 1, Len(names)))
\* [f for f in os.listdir(input_folder) if f.endswith(".pdf")]
PdfOnly(names) == SelectSeq(names, IsPdf)

\* str(n), and n formatted as {n:03}
DigitCh == <<"0", "1", "2", "3", "4", "5", "6", "7", "8", "9">>
RECURSIVE Decimal(_)
Decimal(n) ==
    IF n < 10 THEN <<DigitCh[n + 1]>> ELSE Decimal(n \div 10) \o <<DigitCh[(n % 10) + 1]>>
ZeroPad3(ds) == IF Len(ds) >= 3 THEN ds ELSE [k \in 1..(3 - Len(ds)) |-> "0"] \o ds
\* output_filename = f"case_{idx:03}.txt"
output_filename(idx) == <<"c","a","s","e","_">> \o ZeroPad3(Decimal(idx)) \o <<".","t","x","t">>
\* what process_pdf writes to the output file
FileContent(idx, filename, cleaned) ==
    <<"[","c","a","s","e","_","i","d",":"," ">> \o Decimal(idx)
        \o <<"]","\n","[","f","i","l","e","n","a","m","e",":"," ">> \o filename
        \o <<"]","\n","\n">> \o cleaned

\* full_text: the texts of the pages, one after the other
full_text(filename) == Concat(PdfPages[filename], 1, Len(PdfPages[filename]))
\* what one call of bersihkan_teks on the document does: the lines it drops, the
\* difference normalisasi_teks adds to total_chars_removed, and the text it returns
Cleaning ==
    [f \in FileNames |->
        [lines_removed |-> LinesRemoved(full_text(f)),
         chars_removed |-> CharsRemoved(teks_bersih(full_text(f))),
         cleaned |-> bersihkan_teks(full_text(f))]]

\* the listings of the input folder: at most MaxDocs names, each at most once, in
\* ascending or in descending order (os.listdir promises no order)
Ascending(l) == \A j \in 1..(Len(l) - 1) : StrLess(l[j], l[j + 1])
Descending(l) == \A j \in 1..(Len(l) - 1) : StrLess(l[j + 1], l[j])
Listings ==
    {l \in UNION {[1..n -> FileNames] : n \in 0..MaxDocs} : Ascending(l) \/ Descending(l)}

\* the result dict of process_pdf: as the call starts, and as it returns it
NoError == "None"
NoStats == [total_chars_removed |-> 0, total_lines_removed |-> 0]
NewResult(filename) ==
    [success |-> FALSE, filename |-> filename, error |-> NoError, stats |-> NoStats]
Success(t, st) == [t.result EXCEPT !.success = TRUE, !.stats = st]
Failure(t, msg) == [t.result EXCEPT !.error = msg]
\* (a variant: the exception is not caught, and the call never returns a result)
Uncaught(t, msg) == [t EXCEPT !.pc = "dead"]
\* the except clauses of process_pdf: the call returns the failure
Caught(t, msg) == [t EXCEPT !.pc = "done", !.result = Failure(t, msg)]

\* process_args: the calls of process_pdf that main prepares
process_args(names) ==
    [i \in 1..Len(names) |->
        [pc |-> "args", filename |-> names[i], idx |-> i, tmp |-> 0, k |-> 0,
         result |-> NewResult(names[i])]]

InitPool ==
    /\ listing \in Listings
    /\ workers \in 0..MaxWorkers
    /\ pdf_files = <<>>
    /\ task = <<>>
    /\ stats = [total_chars_removed |-> 0, total_lines_removed |-> 0]
    /\ written = <<>>
    /\ consumed = <<>>
    /\ report = <<>>
    /\ pc1 = "start"
    /\ IdleParser /\ IdleClean /\ IdleMain /\ IdleLines

\* main up to the progress bar: the sorted list of PDF files, and the arguments of
\* the calls; main returns if there is no PDF file
ListFiles ==
    /\ pc1 = "start"
    /\ pdf_files' = sorted(PdfOnly(listing))
    /\ IF Len(pdf_files') = 0
       THEN pc1' = "no_files" /\ UNCHANGED <<task, consumed>>
       ELSE /\ pc1' = "pool"
            /\ task' = process_args(pdf_files')
            /\ consumed' = [i \in 1..Len(pdf_files') |-> 0]
    /\ UNCHANGED <<listing, workers, stats, written, report,
                   parserVars, cleanVars, mainVars, linesVars>>

\* ThreadPoolExecutor(max_workers=args.workers): a ValueError for a size below 1,
\* which main catches as a fatal error
CreatePool ==
    /\ pc1 = "pool"
    /\ pc1' = IF workers < 1 THEN "fatal" ELSE "submit"
    /\ UNCHANGED <<listing, pdf_files, workers, task, stats, written, consumed, report,
                   parserVars, cleanVars, mainVars, linesVars>>

\* executor.submit for the next call
Submit ==
    /\ pc1 = "submit"
    /\ \E i \in DOMAIN task :
          /\ task[i].pc = "args"
          /\ \A j \in 1..(i - 1) : task[j].pc # "args"
          /\ task' = [task EXCEPT ![i].pc = "queued"]
          /\ pc1' = IF i = Len(task) THEN "loop" ELSE "submit"
    /\ UNCHANGED <<listing, pdf_files, workers, stats, written, consumed, report,
                   parserVars, cleanVars, mainVars, linesVars>>

\* the calls that a worker thread is running
Running == {i \in DOMAIN task : task[i].pc \notin {"args", "queued", "done", "dead"}}

\* a free worker thread takes the call that has waited longest
Start(i) ==
    /\ task[i].pc = "queued"
    /\ \A j \in 1..(i - 1) : task[j].pc # "queued"
    /\ Cardinality(Running) < workers
    /\ task' = [task EXCEPT ![i].pc = "decode"]
    /\ UNCHANGED <<listing, pdf_files, workers, stats, written, consumed, report, pc1,
                   parserVars, cleanVars, mainVars, linesVars>>

\* fitz.open and the loop over the pages, or the exception they raise
Decode(i) ==
    /\ task[i].pc = "decode"
    /\ \/ task' = [task EXCEPT ![i].pc =
                      IF Cleaning[task[i].filename].lines_removed > 0 THEN "line" ELSE "norm"]
       \/ \E msg \in {"Invalid PDF file", "cannot open file"} :
             task' = [task EXCEPT ![i] = Caught(task[i], msg)]
    /\ UNCHANGED <<listing, pdf_files, workers, stats, written, consumed, report, pc1,
                   parserVars, cleanVars, mainVars, linesVars>>

\* self.stats['total_lines_removed'] += 1 for the next dropped line: the thread
\* reads the counter ...
LineLoad(i) ==
    /\ task[i].pc = "line"
    /\ task' = [task EXCEPT ![i].pc = "line_store", ![i].tmp = stats.total_lines_removed]
    /\ UNCHANGED <<listing, pdf_files, workers, stats, written, consumed, report, pc1,
                   parserVars, cleanVars, mainVars, linesVars>>

\* ... and stores the value it read plus one
LineStore(i) ==
    /\ task[i].pc = "line_store"
    /\ stats' = [stats EXCEPT !.total_lines_removed = task[i].tmp + 1]
    /\ task' = [task EXCEPT ![i].k = task[i].k + 1,
                            ![i].tmp = 0,
                            ![i].pc = IF task[i].k + 1 < Cleaning[task[i].filename].lines_removed
                                      THEN "line" ELSE "norm"]
    /\ UNCHANGED <<listing, pdf_files, workers, written, consumed, report, pc1,
                   parserVars, cleanVars, mainVars, linesVars>>

\* bersihkan_teks raises
CleaningFails(i) ==
    /\ task[i].pc \in {"line", "norm"}
    /\ task' = [task EXCEPT ![i] = Caught(task[i], "normalization failed")]
    /\ UNCHANGED <<listing, pdf_files, workers, stats, written, consumed, report, pc1,
                   parserVars, cleanVars, mainVars, linesVars>>

\* self.stats['total_chars_removed'] += original_length - len(teks): the thread
\* reads the counter ...
NormLoad(i) ==
    /\ task[i].pc = "norm"
    /\ task' = [task EXCEPT ![i].pc = "norm_store", ![i].tmp = stats.total_chars_removed]
    /\ UNCHANGED <<listing, pdf_files, workers, stats, written, consumed, report, pc1,
                   parserVars, cleanVars, mainVars, linesVars>>

\* ... and stores the value it read plus the difference of the lengths
NormStore(i) ==
    /\ task[i].pc = "norm_store"
    /\ stats' = [stats EXCEPT !.total_chars_removed =
                                  task[i].tmp + Cleaning[task[i].filename].chars_removed]
    /\ task' = [task EXCEPT ![i].pc = "write", ![i].tmp = 0]
    /\ UNCHANGED <<listing, pdf_files, workers, written, consumed, report, pc1,
                   parserVars, cleanVars, mainVars, linesVars>>

\* the output file is written and the call returns the success with a copy of the
\* statistics, or the write raises
WriteFile(i) ==
    /\ task[i].pc = "write"
    /\ \/ /\ written' = Append(written,
                 [path |-> output_filename(task[i].idx), filename |-> task[i].filename,
                  content |-> FileContent(task[i].idx, task[i].filename,
                                          Cleaning[task[i].filename].cleaned)])
          /\ task' = [task EXCEPT ![i].pc = "done", ![i].result = Success(task[i], stats)]
       \/ /\ task' = [task EXCEPT ![i] = Caught(task[i], "cannot write file")]
          /\ written' = written
    /\ UNCHANGED <<listing, pdf_files, workers, stats, consumed, report, pc1,
                   parserVars, cleanVars, mainVars, linesVars>>

\* one pass of the loop over as_completed(futures)
Consume(i) ==
    /\ pc1 = "loop"
    /\ task[i].pc = "done"
    /\ consumed[i] = 0
    /\ consumed' = [consumed EXCEPT ![i] = consumed[i] + 1]
    /\ UNCHANGED <<listing, pdf_files, workers, task, stats, written, report, pc1,
                   parserVars, cleanVars, mainVars, linesVars>>

\* after the loop: the final statistics
PrintStats ==
    /\ pc1 = "loop"
    /\ \A i \in DOMAIN task : consumed[i] > 0
    /\ report' = <<[total_files |-> Len(pdf_files),
                  total_chars_removed |-> stats.total_chars_removed,
                  total_lines_removed |-> stats.total_lines_removed]>>
    /\ pc1' = "done"
    /\ UNCHANGED <<listing, pdf_files, workers, task, stats, written, consumed,
                   parserVars, cleanVars, mainVars, linesVars>>

NextPool ==
    \/ ListFiles
    \/ CreatePool
    \/ Submit
    \/ \E i \in DOMAIN task : Start(i)
    \/ \E i \in DOMAIN task : Decode(i)
    \/ \E i \in DOMAIN task : LineLoad(i)
    \/ \E i \in DOMAIN task : LineStore(i)
    \/ \E i \in DOMAIN task : CleaningFails(i)
    \/ \E i \in DOMAIN task : NormLoad(i)
    \/ \E i \in DOMAIN task : NormStore(i)
    \/ \E i \in DOMAIN task : WriteFile(i)
    \/ \E i \in DOMAIN task : Consume(i)
    \/ PrintStats

PoolSpec == InitPool /\ [][NextPool]_vars

\* every thread that can take a step takes one in the end, and so does main
FairPoolSpec == PoolSpec /\ WF_vars(NextPool)

\* C3: neither statistics counter of the shared TextProcessor is ever lower than a
\* value it held earlier, whatever the interleaving of the workers
C3_CountersNeverDecrease ==
    [][/\ stats'.total_chars_removed >= stats.total_chars_removed
       /\ stats'.total_lines_removed >= stats.total_lines_removed]_vars

\* (the same for the counter of the dropped lines alone)
LinesNeverDecrease ==
    [][stats'.total_lines_removed >= stats.total_lines_removed]_vars

\* the names of the PDF files in the input folder
PdfNames == {listing[k] : k \in {j \in 1..Len(listing) : IsPdf(listing[j])}}
\* the place of the name f among the names in S, counted from 1 in the order of str
Rank(f, S) == 1 + Cardinality({g \in S : StrLess(g, f)})

\* C4: the sequence number of a document is its position in the sorted list of the
\* PDF files, fixed for every document before any call is handed to the pool; the
\* name of the output file is derived from that number alone, so that the file a
\* document is written to depends on the names in the folder only, and no two
\* documents are written to the same path
C4_SequenceNumbers ==
    /\ \A i \in DOMAIN task :
          /\ task[i].idx = i
          /\ task[i].filename = pdf_files[i]
          /\ task[i].idx = Rank(task[i].filename, PdfNames)
    /\ (\E i \in DOMAIN task : task[i].pc # "args") => Len(task) = Cardinality(PdfNames)
    /\ \A k \in DOMAIN written :
          written[k].path = output_filename(Rank(written[k].filename, PdfNames))
    /\ \A j, k \in DOMAIN written : j # k => written[j].path # written[k].path

\* two workers, and the second document of the sorted list was written first, from
\* a folder that did not list its files in sorted order
C4_Witness ==
    /\ workers = 2
    /\ Len(written) = 2
    /\ written[1].path = output_filename(2)
    /\ written[2].path = output_filename(1)
    /\ PdfOnly(listing) # pdf_files

\* the progress loop has taken the result of every document once, and the final
\* statistics are printed
Reported ==
    /\ pc1 = "done"
    /\ Len(report) = 1
    /\ \A i \in DOMAIN task : consumed[i] = 1 /\ task[i].pc = "done"
\* the call has returned, and its result is a success, or a failure with its message
WellFormed(t) ==
    /\ t.pc = "done"
    /\ t.result.filename = t.filename
    /\ IF t.result.success THEN t.result.error = NoError ELSE t.result.error # NoError
\* the output file of the document has been written
HasOutput(t) ==
    \E k \in DOMAIN written :
        written[k].filename = t.filename /\ written[k].path = output_filename(t.idx)

\* C5 as stated, for any set of documents: the run reaches the final statistics
\* report with one result consumed for every document
C5_AlwaysReported == <>Reported

\* C5: for a folder with at least one PDF file and a pool of at least one worker,
\* whichever documents raise in decoding, normalization or writing: the result of a
\* document is consumed at most once and only when it is there, as a success or as a
\* failure with its message; in the end the result of every document has been
\* consumed exactly once and the final statistics are printed; and then every
\* document that did not raise itself has its output file
C5_FailureIsolation ==
    /\ [](\A i \in DOMAIN task :
            /\ consumed[i] <= 1
            /\ consumed[i] = 1 => WellFormed(task[i]))
    /\ [](pc1 = "done" =>
            \A i \in DOMAIN task : task[i].result.success <=> HasOutput(task[i]))
    /\ (pc1 = "submit") ~> Reported

\* the first document failed, the second was written, and the report is printed
C5_Witness ==
    /\ Reported
    /\ Len(task) >= 2
    /\ ~task[1].result.success
    /\ task[2].result.success /\ HasOutput(task[2])


\* what the calls of bersihkan_teks for the documents 1..n add up to: the lines
\* dropped, and the characters removed (length before normalisation minus length
\* of the cleaned text)
RECURSIVE LinesOfDocs(_)
LinesOfDocs(n) ==
    IF n = 0 THEN 0 ELSE LinesOfDocs(n - 1) + Cleaning[task[n].filename].lines_removed
RECURSIVE CharsOfDocs(_)
CharsOfDocs(n) ==
    IF n = 0 THEN 0 ELSE CharsOfDocs(n - 1) + Cleaning[task[n].filename].chars_removed

\* C12: after the pool has drained, with every document processed, the reported
\* total_lines_removed is the sum over the documents of the lines dropped for each,
\* and the reported total_chars_removed is the sum over the documents of the
\* characters removed from each, for any pool size and any interleaving
C12_NoLostUpdates ==
    (pc1 = "done" /\ \A i \in DOMAIN task : task[i].result.success) =>
        /\ report[1].total_lines_removed = LinesOfDocs(Len(task))
        /\ report[1].total_chars_removed = CharsOfDocs(Len(task))

\* (the same for runs with a pool of one worker, where no two calls overlap)
NoLostUpdatesOneWorker == workers = 1 => C12_NoLostUpdates

(***************************************************************************)
(* Stage 1: one call of bersihkan_teks, its loop taken line by line        *)
(***************************************************************************)
MaxLines == 2
\* the lines that earlier calls on the same TextProcessor have dropped
EarlierCounts == {0, 3}

\* the lines the texts are made of
LineEmpty == <<>>
LineBlank == <<" "," ">>
LineNumber == <<" ","1","2"," ">>
LinePage == <<"H","a","l","a","m","a","n"," ","2">>
LineSixWords == <<"t","e","l","p"," ","a"," ","b"," ","c"," ","d"," ","e">>
LineSevenWords == <<"t","e","l","p"," ","a"," ","b"," ","c"," ","d"," ","e"," ","f">>
LinePidana == <<"f","a","x"," ","t","e","r","p","i","d","a","n","a">>
LineMenjatuhkan == <<"h","a","l","a","m","a","n"," ","m","e","n","j","a","t","u","h","k","a","n"," ","x">>
LineMenimbang == <<"M","e","n","i","m","b","a","n","g"," ","b","a","h","w","a"," ","x">>
LinePlain == <<"x"," ","h","a","l","a","m","a","n"," ","2">>
LineNumberLetter == <<"1","2","a">>
SampleLines ==
    {LineEmpty, LineBlank, LineNumber, LinePage, LineSixWords, LineSevenWords,
     LinePidana, LineMenjatuhkan, LineMenimbang, LinePlain, LineNumberLetter}
\* the texts bersihkan_teks is called with: one to MaxLines lines
LineTexts == {JoinLines(ls) : ls \in UNION {[1..n -> SampleLines] : n \in 1..MaxLines}}

\* the call starts; the counter holds the lines that earlier calls have dropped
InitLines ==
    /\ bt \in [pc : {"start"}, teks : LineTexts, lines : {<<>>}, i : {0},
               hasil_bersih : {<<>>}, fate : {<<>>}, before : EarlierCounts, out : {<<>>}]
    /\ listing = <<>> /\ pdf_files = <<>> /\ workers = 0 /\ task = <<>>
    /\ stats = [total_chars_removed |-> 0, total_lines_removed |-> bt.before]
    /\ written = <<>> /\ consumed = <<>> /\ report = <<>> /\ pc1 = "idle"
    /\ IdleParser /\ IdleClean /\ IdleMain

\* lines 136-139: the text is split into its lines
SplitText ==
    /\ bt.pc = "start"
    /\ bt' = [bt EXCEPT !.pc = "loop", !.lines = SplitLines(bt.teks), !.i = 1]
    /\ UNCHANGED <<parserVars, cleanVars, mainVars, poolVars>>

\* what the loop does with line i: dropped, and counted ...
Dropped ==
    /\ bt' = [bt EXCEPT !.i = bt.i + 1,
                        !.fate = Append(bt.fate, [line |-> bt.i, kept |-> FALSE])]
    /\ stats' = [stats EXCEPT !.total_lines_removed = stats.total_lines_removed + 1]
    /\ UNCHANGED <<listing, pdf_files, workers, task, written, consumed, report, pc1,
                   parserVars, cleanVars, mainVars>>
\* ... or appended to hasil_bersih as entry
Appended(entry) ==
    /\ bt' = [bt EXCEPT !.i = bt.i + 1,
                        !.hasil_bersih = Append(bt.hasil_bersih, entry),
                        !.fate = Append(bt.fate, [line |-> bt.i, kept |-> TRUE])]
    /\ UNCHANGED <<parserVars, cleanVars, mainVars, poolVars>>

\* lines 143-145: an empty line or a line with just a number
DropBlankOrNumber ==
    /\ bt.pc = "loop" /\ bt.i <= Len(bt.lines)
    /\ IsBlankOrNumber(bt.lines[bt.i])
    /\ Dropped

\* lines 148-152: a short line that starts with an unwanted phrase
DropBoilerplate ==
    /\ bt.pc = "loop" /\ bt.i <= Len(bt.lines)
    /\ ~IsBlankOrNumber(bt.lines[bt.i])
    /\ IsBoilerplate(bt.lines[bt.i])
    /\ Dropped

\* lines 155-156: a line with a phrase that starts a paragraph
AppendParagraph ==
    /\ bt.pc = "loop" /\ bt.i <= Len(bt.lines)
    /\ ~IsBlankOrNumber(bt.lines[bt.i])
    /\ ~IsBoilerplate(bt.lines[bt.i])
    /\ IsParagraphStart(bt.lines[bt.i])
    /\ Appended(<<"\n">> \o Strip(bt.lines[bt.i]))

\* lines 157-158: any other line
AppendLine ==
    /\ bt.pc = "loop" /\ bt.i <= Len(bt.lines)
    /\ ~IsBlankOrNumber(bt.lines[bt.i])
    /\ ~IsBoilerplate(bt.lines[bt.i])
    /\ ~IsParagraphStart(bt.lines[bt.i])
    /\ Appended(Strip(bt.lines[bt.i]))

\* lines 160-161: the kept lines are joined, and normalisasi_teks cleans the result
\* and adds the difference of the lengths to total_chars_removed
JoinAndNormalise ==
    /\ bt.pc = "loop" /\ bt.i > Len(bt.lines)
    /\ bt' = [bt EXCEPT !.pc = "returned",
                        !.out = normalisasi_teks(JoinLines(bt.hasil_bersih))]
    /\ stats' = [stats EXCEPT !.total_chars_removed =
                                  stats.total_chars_removed
                                      + (Len(JoinLines(bt.hasil_bersih)) - Len(bt'.out))]
    /\ UNCHANGED <<listing, pdf_files, workers, task, written, consumed, report, pc1,
                   parserVars, cleanVars, mainVars>>

NextLines ==
    \/ SplitText
    \/ DropBlankOrNumber
    \/ DropBoilerplate
    \/ AppendParagraph
    \/ AppendLine
    \/ JoinAndNormalise

LinesSpec == InitLines /\ [][NextLines]_vars

\* the line l, judged without the whitespace around it: it is empty
NothingButBlanks(l) == \A k \in 1..Len(l) : l[k] \in WS
\* the line is one number: digits, one after the other, and nothing but whitespace
\* around them
PurelyNumeric(l) ==
    \E a, b \in 1..Len(l) :
        /\ a <= b
        /\ \A k \in 1..Len(l) : IF k >= a /\ k <= b THEN l[k] \in Digit ELSE l[k] \in WS
\* the number of words: the places where a word ends
WordsIn(l) == Cardinality({k \in 1..Len(l) : l[k] \notin WS /\ (k = Len(l) \/ l[k + 1] \in WS)})
\* the first word of the line starts with w
BeginsWith(l, w) ==
    \E f \in 1..Len(l) :
        /\ \A k \in 1..(f - 1) : l[k] \in WS
        /\ f + Len(w) - 1 <= Len(l)
        /\ SubSeq(l, f, f + Len(w) - 1) = w
\* w occurs in the line
HasToken(l, w) == \E a \in 1..Len(l) : a + Len(w) - 1 <= Len(l) /\ SubSeq(l, a, a + Len(w) - 1) = w
\* the rule for dropping a line, as stated, read on the line in lower case
ShouldDrop(l) ==
    \/ NothingButBlanks(l)
    \/ PurelyNumeric(l)
    \/ /\ WordsIn(LowerStr(l)) <= 6
       /\ \E f \in 1..Len(HAPUS_FRASA) : BeginsWith(LowerStr(l), HAPUS_FRASA[f])
       /\ ~HasToken(LowerStr(l), <<"p","i","d","a","n","a">>)
       /\ ~HasToken(LowerStr(l), <<"m","e","n","j","a","t","u","h","k","a","n">>)

\* the input lines: the pieces of the text between its line breaks
InputLines == SplitLines(bt.teks)
\* how often the loop has decided about input line k, and the decisions to drop
Decisions(k) == {j \in DOMAIN bt.fate : bt.fate[j].line = k}
DroppedSoFar == {j \in DOMAIN bt.fate : ~bt.fate[j].kept}

\* C11: in one call of bersihkan_teks by a single caller, every input line is dropped
\* or kept, exactly once; a line is dropped exactly when it is empty or purely
\* numeric (whitespace around it aside), or has at most 6 words, starts with a
\* boilerplate phrase and contains neither "pidana" nor "menjatuhkan"; the counter
\* total_lines_removed has grown by one for each line dropped and by nothing for a
\* line kept, so that after the call its increase is the number of input lines minus
\* the number of kept lines
C11_LineReclassification ==
    bt.pc \in {"loop", "returned"} =>
        /\ \A k \in 1..Len(InputLines) :
              Cardinality(Decisions(k)) = IF k < bt.i THEN 1 ELSE 0
        /\ \A j \in DOMAIN bt.fate :
              /\ bt.fate[j].line \in 1..Len(InputLines)
              /\ bt.fate[j].kept <=> ~ShouldDrop(InputLines[bt.fate[j].line])
        /\ stats.total_lines_removed - bt.before = Cardinality(DroppedSoFar)
        /\ Len(bt.hasil_bersih) = Len(bt.fate) - Cardinality(DroppedSoFar)
        /\ bt.pc = "returned" =>
              /\ bt.i = Len(InputLines) + 1
              /\ stats.total_lines_removed - bt.before
                    = Len(InputLines) - Len(bt.hasil_bersih)

\* the call has returned: a short line that starts with a boilerplate phrase was
\* dropped and counted, and another one was kept for its escape token
C11_Witness ==
    /\ bt.pc = "returned"
    /\ bt.before > 0
    /\ \E j, k \in DOMAIN bt.fate :
          /\ ~bt.fate[j].kept /\ bt.fate[k].kept
          /\ bt.lines[bt.fate[j].line] = LineSixWords
          /\ bt.lines[bt.fate[k].line] = LinePidana
    /\ stats.total_lines_removed = bt.before + 1

====
